---- MODULE Spec2Model ----
(***************************************************************************)
(* Event ingestion, delta aggregation and turn tracking of the telemetry   *)
(* dashboard (dashboard/src/routes/api/events/+server.ts).                 *)
(*                                                                         *)
(* The aggregate store is modelled table by table: a table with a unique   *)
(* key is a function from the key to its row (NoRow when absent), the      *)
(* turns table, whose primary key is a serial id, is a sequence of rows,   *)
(* and so are the file edits and the assistant text parts.                 *)
(* costUsd is counted in integer units (the code stores a double).         *)
(* tieBreak is the order in which the store returns rows of equal          *)
(* createdAt; log is the history of the serially processed events of the   *)
(* turn tracker and the text accumulator.                                  *)
(* The live hub (dashboard/src/lib/server/db.ts) is the sequence of the    *)
(* registered subscribers in insertion order, the items each subscriber's  *)
(* channel has received, the subscribers whose channel rejects writes,     *)
(* the running heartbeat timers and the record of the publish calls.       *)
(***************************************************************************)
EXTENDS Integers, Sequences, FiniteSets, TLC

VARIABLES requests, sessions, dailySummary, turns, calls, status, run, delivered,
          toolCalls, fileEdits, assistantTextParts, tieBreak, log,
          subscribers, channel, broken, timers, published

vars == <<requests, sessions, dailySummary, turns, calls, status, run, delivered,
          toolCalls, fileEdits, assistantTextParts, tieBreak, log,
          subscribers, channel, broken, timers, published>>

store == <<requests, sessions, dailySummary, turns>>

\* the tool, file and text tables, and the record of the processed events
tracker == <<toolCalls, fileEdits, assistantTextParts, tieBreak, log>>

\* the subscriber registry of the live hub
hub == <<subscribers, broken, timers>>

\* the live hub and the record of its publish calls
live == <<subscribers, channel, broken, timers, published>>

\* ---------------------------------------------------------------- bounds
\* number of events the producer delivers in one behaviour
MaxEvents == 3

\* the handler invocations that may be in flight at the same time
Calls == {1, 2}

\* ------------------------------------------------------------ input sets
MessageIds == {"m1", "m2", "m3"}

UserMessageIds == {"u1", "u2"}

CallIds == {"c1", "c2"}

SessionIds == {"S1", "S2"}

Providers == {"pX"}

Models == {"mY", "mZ"}

\* instants; 1 lies on one calendar day, 2 and 3 on the next one
Times == {1, 2, 3}

\* the absent row of a keyed table
NoRow == [absent |-> TRUE]

\* no deliveries in a row yet / the history of deliveries is not recorded
NoRun == [messageId |-> "none"]

Off == [messageId |-> "off"]

Null == "null"

\* the assistantText column before any text was written (null)
NoText == <<>>

\* token snapshots a producer reports: the streaming series (10,5), (30,15),
\* (50,25) and re-sends that differ from the first one in one hidden field
Tok(i, o, r, cr, cw) ==
    [input |-> i, output |-> o, reasoning |-> r, cacheRead |-> cr, cacheWrite |-> cw]

Snapshots ==
    { [tokens |-> Tok(10, 5, 0, 0, 0), cost |-> 1],
      [tokens |-> Tok(30, 15, 2, 1, 1), cost |-> 3],
      [tokens |-> Tok(50, 25, 2, 1, 1), cost |-> 5],
      [tokens |-> Tok(10, 5, 1, 0, 0), cost |-> 1],
      [tokens |-> Tok(10, 5, 0, 1, 1), cost |-> 1] }

\* message.sessionID / providerID / modelID of the producer: fixed per message
SessionOf == [m \in MessageIds |-> IF m = "m3" THEN "S2" ELSE "S1"]

ModelOf == [m \in MessageIds |-> IF m = "m2" THEN "mZ" ELSE "mY"]

UserSessionOf == [u \in UserMessageIds |-> "S1"]

RequestEvents ==
    { [messageId |-> m, sessionId |-> SessionOf[m], providerId |-> "pX",
       modelId |-> ModelOf[m], tokens |-> s.tokens, cost |-> s.cost, createdAt |-> t] :
          m \in MessageIds, s \in Snapshots, t \in Times }

PromptEvents ==
    { [messageId |-> u, sessionId |-> UserSessionOf[u], createdAt |-> t] :
          u \in UserMessageIds, t \in Times }

\* --------------------------------------------------------------- helpers
\* timestamp.toISOString().split('T')[0]: the calendar day of an instant
dateStr(t) == t \div 2

Dates == { dateStr(t) : t \in Times }

DailyKeys == Dates \X Providers \X Models

Max(a, b) == IF a >= b THEN a ELSE b

Last(seq) == seq[Len(seq)]

\* a column of a row that may be absent
Col(row, col) == IF row = NoRow THEN 0 ELSE row[col]

RECURSIVE SumOver(_, _, _)
\* sum of column col over the rows present in table (a function to rows)
SumOver(table, keys, col) ==
    IF keys = {} THEN 0
    ELSE LET k == CHOOSE x \in keys : TRUE
         IN (IF table[k] = NoRow THEN 0 ELSE table[k][col])
            + SumOver(table, keys \ {k}, col)

\* ------------------------------------------------------- request handler
\* faulty variant: the conflict branch adds the event's counters to the row
UpsertRequestAdditive(reqs, e) ==
    IF reqs[e.messageId] = NoRow
    THEN [reqs EXCEPT ![e.messageId] =
            [sessionId |-> e.sessionId, providerId |-> e.providerId,
             modelId |-> e.modelId,
             tokensInput |-> e.tokens.input, tokensOutput |-> e.tokens.output,
             tokensReasoning |-> e.tokens.reasoning,
             tokensCacheRead |-> e.tokens.cacheRead,
             tokensCacheWrite |-> e.tokens.cacheWrite,
             costUsd |-> e.cost]]
    ELSE [reqs EXCEPT ![e.messageId] =
            [@ EXCEPT !.tokensInput = @ + e.tokens.input,
                      !.tokensOutput = @ + e.tokens.output,
                      !.tokensReasoning = @ + e.tokens.reasoning,
                      !.tokensCacheRead = @ + e.tokens.cacheRead,
                      !.tokensCacheWrite = @ + e.tokens.cacheWrite,
                      !.costUsd = @ + e.cost]]

\* db.insert(requests)...onConflictDoUpdate(target messageId): the identifying
\* columns are written on insert only (createdAt, which no handler reads back,
\* is left out of the row)
UpsertRequest(reqs, e) ==
    IF reqs[e.messageId] = NoRow
    THEN [reqs EXCEPT ![e.messageId] =
            [sessionId |-> e.sessionId, providerId |-> e.providerId,
             modelId |-> e.modelId,
             tokensInput |-> e.tokens.input, tokensOutput |-> e.tokens.output,
             tokensReasoning |-> e.tokens.reasoning,
             tokensCacheRead |-> e.tokens.cacheRead,
             tokensCacheWrite |-> e.tokens.cacheWrite,
             costUsd |-> e.cost]]
    ELSE [reqs EXCEPT ![e.messageId] =
            [@ EXCEPT !.tokensInput = e.tokens.input,
                      !.tokensOutput = e.tokens.output,
                      !.tokensReasoning = e.tokens.reasoning,
                      !.tokensCacheRead = e.tokens.cacheRead,
                      !.tokensCacheWrite = e.tokens.cacheWrite,
                      !.costUsd = e.cost]]

\* faulty variant: the conflict branch overwrites the totals instead of adding to them
SessionFirstReportOverwrite(sess, e) ==
    [sess EXCEPT ![e.sessionId] =
        [lastRequestAt |-> e.createdAt,
         totalRequests |-> Col(@, "totalRequests") + 1, totalCostUsd |-> e.cost,
         totalTokensInput |-> e.tokens.input,
         totalTokensOutput |-> e.tokens.output]]

\* first report: db.insert(sessions)...onConflictDoUpdate(+1, + full values)
SessionFirstReport(sess, e) ==
    IF sess[e.sessionId] = NoRow
    THEN [sess EXCEPT ![e.sessionId] =
            [lastRequestAt |-> e.createdAt,
             totalRequests |-> 1, totalCostUsd |-> e.cost,
             totalTokensInput |-> e.tokens.input,
             totalTokensOutput |-> e.tokens.output]]
    ELSE [sess EXCEPT ![e.sessionId] =
            [@ EXCEPT !.lastRequestAt = e.createdAt,
                      !.totalRequests = @ + 1,
                      !.totalCostUsd = @ + e.cost,
                      !.totalTokensInput = @ + e.tokens.input,
                      !.totalTokensOutput = @ + e.tokens.output]]

\* faulty variant: the conflict branch writes the event's values over the row
DailyFirstReportOverwrite(daily, e) ==
    LET k == <<dateStr(e.createdAt), e.providerId, e.modelId>>
    IN [daily EXCEPT ![k] =
          [requestCount |-> Col(@, "requestCount") + 1,
           tokensInput |-> e.tokens.input, tokensOutput |-> e.tokens.output,
           tokensReasoning |-> e.tokens.reasoning,
           tokensCacheRead |-> e.tokens.cacheRead,
           tokensCacheWrite |-> e.tokens.cacheWrite,
           costUsd |-> e.cost]]

\* first report: db.insert(dailySummary)...onConflictDoUpdate(+1, + full values)
DailyFirstReport(daily, e) ==
    LET k == <<dateStr(e.createdAt), e.providerId, e.modelId>>
    IN IF daily[k] = NoRow
       THEN [daily EXCEPT ![k] =
               [requestCount |-> 1,
                tokensInput |-> e.tokens.input, tokensOutput |-> e.tokens.output,
                tokensReasoning |-> e.tokens.reasoning,
                tokensCacheRead |-> e.tokens.cacheRead,
                tokensCacheWrite |-> e.tokens.cacheWrite,
                costUsd |-> e.cost]]
       ELSE [daily EXCEPT ![k] =
               [@ EXCEPT !.requestCount = @ + 1,
                         !.tokensInput = @ + e.tokens.input,
                         !.tokensOutput = @ + e.tokens.output,
                         !.tokensReasoning = @ + e.tokens.reasoning,
                         !.tokensCacheRead = @ + e.tokens.cacheRead,
                         !.tokensCacheWrite = @ + e.tokens.cacheWrite,
                         !.costUsd = @ + e.cost]]

\* faulty variant: the re-send is added in full, nothing is subtracted
DeltaFull(e, existingRecord) ==
    [input |-> e.tokens.input, output |-> e.tokens.output,
     reasoning |-> e.tokens.reasoning, cacheRead |-> e.tokens.cacheRead,
     cacheWrite |-> e.tokens.cacheWrite, cost |-> e.cost]

\* faulty variant: a shrinking counter is treated as unchanged
DeltaClamped(e, existingRecord) ==
    [input |-> Max(0, e.tokens.input - existingRecord.tokensInput),
     output |-> Max(0, e.tokens.output - existingRecord.tokensOutput),
     reasoning |-> Max(0, e.tokens.reasoning - existingRecord.tokensReasoning),
     cacheRead |-> Max(0, e.tokens.cacheRead - existingRecord.tokensCacheRead),
     cacheWrite |-> Max(0, e.tokens.cacheWrite - existingRecord.tokensCacheWrite),
     cost |-> Max(0, e.cost - existingRecord.costUsd)]

\* deltaInput ... deltaCost: the event's values minus the row read before
Delta(e, existingRecord) ==
    [input |-> e.tokens.input - existingRecord.tokensInput,
     output |-> e.tokens.output - existingRecord.tokensOutput,
     reasoning |-> e.tokens.reasoning - existingRecord.tokensReasoning,
     cacheRead |-> e.tokens.cacheRead - existingRecord.tokensCacheRead,
     cacheWrite |-> e.tokens.cacheWrite - existingRecord.tokensCacheWrite,
     cost |-> e.cost - existingRecord.costUsd]

\* if (deltaCost !== 0 || deltaInput !== 0 || deltaOutput !== 0)
DeltaGuard(d) == d.cost # 0 \/ d.input # 0 \/ d.output # 0

\* db.update(dailySummary).set(col = col + delta).where(date, provider, model):
\* an UPDATE whose WHERE matches no row changes nothing
DailyDelta(daily, e, d) ==
    LET k == <<dateStr(e.createdAt), e.providerId, e.modelId>>
    IN IF daily[k] = NoRow THEN daily
       ELSE [daily EXCEPT ![k] =
               [@ EXCEPT !.tokensInput = @ + d.input,
                         !.tokensOutput = @ + d.output,
                         !.tokensReasoning = @ + d.reasoning,
                         !.tokensCacheRead = @ + d.cacheRead,
                         !.tokensCacheWrite = @ + d.cacheWrite,
                         !.costUsd = @ + d.cost]]

\* faulty variant: the session update forgets the output tokens
SessionDeltaNoOutput(sess, e, d) ==
    IF sess[e.sessionId] = NoRow THEN sess
    ELSE [sess EXCEPT ![e.sessionId] =
            [@ EXCEPT !.totalCostUsd = @ + d.cost,
                      !.totalTokensInput = @ + d.input,
                      !.lastRequestAt = e.createdAt]]

\* db.update(sessions).set(total = total + delta, lastRequestAt).where(sessionId)
SessionDelta(sess, e, d) ==
    IF sess[e.sessionId] = NoRow THEN sess
    ELSE [sess EXCEPT ![e.sessionId] =
            [@ EXCEPT !.totalCostUsd = @ + d.cost,
                      !.totalTokensInput = @ + d.input,
                      !.totalTokensOutput = @ + d.output,
                      !.lastRequestAt = e.createdAt]]

\* faulty variant: the query forgets isNull(turns.assistantMessageId)
OpenTurnIdsAnyTurn(trns, sid) ==
    { i \in 1..Len(trns) : trns[i].sessionId = sid }

\* ids of the turns of session sid with assistantMessageId null
OpenTurnIds(trns, sid) ==
    { i \in 1..Len(trns) : trns[i].sessionId = sid /\ trns[i].assistantMessageId = Null }

\* .orderBy(desc(turns.createdAt)).limit(1): any open turn with the greatest
\* createdAt; 0 stands for the empty result
OpenTurnChoices(trns, sid) ==
    LET open == OpenTurnIds(trns, sid)
    IN IF open = {} THEN {0}
       ELSE { i \in open : \A j \in open : trns[j].createdAt <= trns[i].createdAt }

\* the unique index idx_turns_assistant_message rejects a second turn with the
\* same assistantMessageId
TurnUpdateViolates(trns, id, e) ==
    \E j \in 1..Len(trns) : j # id /\ trns[j].assistantMessageId = e.messageId

\* db.update(turns).set({assistantMessageId, tokens..., costUsd}).where(id)
CloseTurn(trns, id, e) ==
    [trns EXCEPT ![id] =
        [@ EXCEPT !.assistantMessageId = e.messageId,
                  !.tokensInput = e.tokens.input,
                  !.tokensOutput = e.tokens.output,
                  !.tokensReasoning = e.tokens.reasoning,
                  !.tokensCacheRead = e.tokens.cacheRead,
                  !.tokensCacheWrite = e.tokens.cacheWrite,
                  !.costUsd = e.cost]]

\* -------------------------------------------------------- prompt handler
\* faulty variant: the conflict branch clears the totals of the session
SessionPromptResets(sess, e) ==
    [sess EXCEPT ![e.sessionId] =
        [lastRequestAt |-> e.createdAt,
         totalRequests |-> 0, totalCostUsd |-> 0,
         totalTokensInput |-> 0, totalTokensOutput |-> 0]]

\* faulty variant: a session row created by a prompt counts one request
SessionPromptCounts(sess, e) ==
    IF sess[e.sessionId] = NoRow
    THEN [sess EXCEPT ![e.sessionId] =
            [lastRequestAt |-> e.createdAt,
             totalRequests |-> 1, totalCostUsd |-> 0,
             totalTokensInput |-> 0, totalTokensOutput |-> 0]]
    ELSE [sess EXCEPT ![e.sessionId] =
            [@ EXCEPT !.lastRequestAt = Max(@, e.createdAt)]]

\* db.insert(sessions).values(first/lastRequestAt)...onConflictDoUpdate(
\* lastRequestAt = GREATEST, firstRequestAt = COALESCE): totals default to 0;
\* firstRequestAt and title keep their first value and are left out of the row
SessionPrompt(sess, e) ==
    IF sess[e.sessionId] = NoRow
    THEN [sess EXCEPT ![e.sessionId] =
            [lastRequestAt |-> e.createdAt,
             totalRequests |-> 0, totalCostUsd |-> 0,
             totalTokensInput |-> 0, totalTokensOutput |-> 0]]
    ELSE [sess EXCEPT ![e.sessionId] =
            [@ EXCEPT !.lastRequestAt = Max(@, e.createdAt)]]

\* faulty variant: a plain insert, every delivery of a prompt adds a row
TurnPromptAppends(trns, e) ==
    Append(trns,
        [sessionId |-> e.sessionId, userMessageId |-> e.messageId,
         assistantMessageId |-> Null, assistantText |-> NoText,
         createdAt |-> e.createdAt,
         tokensInput |-> 0, tokensOutput |-> 0, tokensReasoning |-> 0,
         tokensCacheRead |-> 0, tokensCacheWrite |-> 0, costUsd |-> 0])

\* faulty variant: the conflict branch also clears assistantMessageId
TurnPromptReopens(trns, e) ==
    IF \E i \in 1..Len(trns) : trns[i].userMessageId = e.messageId
    THEN [i \in 1..Len(trns) |->
            IF trns[i].userMessageId = e.messageId
            THEN [trns[i] EXCEPT !.createdAt = e.createdAt, !.assistantMessageId = Null]
            ELSE trns[i]]
    ELSE Append(trns,
            [sessionId |-> e.sessionId, userMessageId |-> e.messageId,
             assistantMessageId |-> Null, assistantText |-> NoText,
             createdAt |-> e.createdAt,
             tokensInput |-> 0, tokensOutput |-> 0, tokensReasoning |-> 0,
             tokensCacheRead |-> 0, tokensCacheWrite |-> 0, costUsd |-> 0])

\* db.insert(turns)...onConflictDoUpdate(target userMessageId, set prompt, createdAt)
TurnPrompt(trns, e) ==
    IF \E i \in 1..Len(trns) : trns[i].userMessageId = e.messageId
    THEN [i \in 1..Len(trns) |->
            IF trns[i].userMessageId = e.messageId
            THEN [trns[i] EXCEPT !.createdAt = e.createdAt]
            ELSE trns[i]]
    ELSE Append(trns,
            [sessionId |-> e.sessionId, userMessageId |-> e.messageId,
             assistantMessageId |-> Null, assistantText |-> NoText,
             createdAt |-> e.createdAt,
             tokensInput |-> 0, tokensOutput |-> 0, tokensReasoning |-> 0,
             tokensCacheRead |-> 0, tokensCacheWrite |-> 0, costUsd |-> 0])

\* ------------------------------------------------- tool and file handlers
\* faulty variant: the conflict branch writes a fresh row over the stored one
ToolBeforeWriteFresh(tc, e, openTurn) ==
    [tc EXCEPT ![e.callId] =
        [sessionId |-> e.sessionId, turnId |-> openTurn, tool |-> e.tool,
         args |-> e.args, startedAt |-> e.createdAt,
         output |-> Null, success |-> Null, durationMs |-> 0, completedAt |-> 0]]

\* case 'tool.before': db.insert(toolCalls)...onConflictDoUpdate(target callId).
\* turnId 0 is the null reference; on conflict an undefined turnId (no open
\* turn) is not part of the SET clause and the stored reference stays.
\* completedAt 0, durationMs 0 and the other Null columns are null.
ToolBeforeWrite(tc, e, openTurn) ==
    IF tc[e.callId] = NoRow
    THEN [tc EXCEPT ![e.callId] =
            [sessionId |-> e.sessionId, turnId |-> openTurn, tool |-> e.tool,
             args |-> e.args, startedAt |-> e.createdAt,
             output |-> Null, success |-> Null, durationMs |-> 0, completedAt |-> 0]]
    ELSE [tc EXCEPT ![e.callId] =
            [@ EXCEPT !.sessionId = e.sessionId,
                      !.turnId = IF openTurn = 0 THEN @ ELSE openTurn,
                      !.tool = e.tool, !.args = e.args, !.startedAt = e.createdAt]]

\* faulty variant: the conflict branch clears the turn reference
ToolAfterWriteDropsTurn(tc, e) ==
    [tc EXCEPT ![e.callId] =
        [sessionId |-> e.sessionId, turnId |-> 0, tool |-> e.tool,
         args |-> Null, startedAt |-> e.createdAt,
         output |-> e.output, success |-> e.success,
         durationMs |-> e.durationMs, completedAt |-> e.createdAt]]

\* case 'tool.after': the inserted row carries no turnId and no args, the
\* conflict branch sets the completion columns only
ToolAfterWrite(tc, e) ==
    IF tc[e.callId] = NoRow
    THEN [tc EXCEPT ![e.callId] =
            [sessionId |-> e.sessionId, turnId |-> 0, tool |-> e.tool,
             args |-> Null, startedAt |-> e.createdAt,
             output |-> e.output, success |-> e.success,
             durationMs |-> e.durationMs, completedAt |-> e.createdAt]]
    ELSE [tc EXCEPT ![e.callId] =
            [@ EXCEPT !.output = e.output, !.success = e.success,
                      !.durationMs = e.durationMs, !.completedAt = e.createdAt]]

\* case 'file.edit': the tool call is looked up by callId (the row of the
\* callId stands for its serial id), the row is appended
FileEditWrite(fe, tc, e, openTurn) ==
    Append(fe,
        [sessionId |-> e.sessionId, turnId |-> openTurn,
         toolCallId |-> IF tc[e.toolCallId] = NoRow THEN Null ELSE e.toolCallId,
         filePath |-> e.filePath, operation |-> e.operation,
         createdAt |-> e.createdAt])

\* ---------------------------------------------------------- text handler
\* faulty variant: a plain insert that stores the part again
TextInsertAgain(parts, e) ==
    Append(parts,
        [sessionId |-> e.sessionId, messageId |-> e.messageId, partId |-> e.partId,
         text |-> e.text, createdAt |-> e.createdAt])

\* db.insert(assistantTextParts)...onConflictDoNothing(): a part whose
\* (messageId, partId) is stored is ignored
TextInsert(parts, e) ==
    IF \E i \in 1..Len(parts) :
          parts[i].messageId = e.messageId /\ parts[i].partId = e.partId
    THEN parts
    ELSE Append(parts,
            [sessionId |-> e.sessionId, messageId |-> e.messageId, partId |-> e.partId,
             text |-> e.text, createdAt |-> e.createdAt])

\* faulty variant: the rows come in arrival order, createdAt is ignored
BeforeArrival(parts, i, j, tb) == i <= j

\* .orderBy(assistantTextParts.createdAt): row i comes before row j; rows with
\* equal createdAt come in the order of the store, ascending or descending ids
Before(parts, i, j, tb) ==
    \/ parts[i].createdAt < parts[j].createdAt
    \/ /\ parts[i].createdAt = parts[j].createdAt
       /\ IF tb = "asc" THEN i <= j ELSE i >= j

RECURSIVE Ordered(_, _, _)
\* the rows ids in the order of the query result
Ordered(parts, ids, tb) ==
    IF ids = {} THEN <<>>
    ELSE LET first == CHOOSE i \in ids : \A j \in ids : Before(parts, i, j, tb)
         IN <<first>> \o Ordered(parts, ids \ {first}, tb)

\* db.select({text}).from(assistantTextParts).where(messageId).orderBy(createdAt)
SelectParts(parts, mid, tb) ==
    LET ord == Ordered(parts, { i \in 1..Len(parts) : parts[i].messageId = mid }, tb)
    IN [k \in 1..Len(ord) |-> parts[ord[k]].text]

RECURSIVE JoinLines(_)
\* parts.map((p) => p.text).join('\n'); a text is a sequence of characters
JoinLines(texts) ==
    IF texts = <<>> THEN <<>>
    ELSE IF Len(texts) = 1 THEN texts[1]
         ELSE texts[1] \o <<"\n">> \o JoinLines(Tail(texts))

\* db.update(turns).set({assistantText: fullText}).where(assistantMessageId)
TextOnTurns(trns, mid, fullText) ==
    [i \in 1..Len(trns) |->
        IF trns[i].assistantMessageId = mid
        THEN [trns[i] EXCEPT !.assistantText = fullText]
        ELSE trns[i]]

\* ------------------------------------------------------------ the state
Idle == [pc |-> "idle"]

\* history of the deliveries in a row for one messageId: the store before the
\* first of them, whether it was a first report, the payloads and the
\* response status of each
StartRun(e) ==
    IF run = Off THEN Off
    ELSE IF run.messageId = e.messageId
         THEN [run EXCEPT !.snaps = Append(@, e)]
         ELSE [messageId |-> e.messageId, first |-> (requests[e.messageId] = NoRow),
               pre |-> [requests |-> requests, sessions |-> sessions,
                        dailySummary |-> dailySummary],
               snaps |-> <<e>>, results |-> <<>>]

EndRun(r, code) ==
    IF r = Off \/ r = NoRun THEN r
    ELSE [r EXCEPT !.results = Append(@, code)]

\* ------------------------------------------------------------ live hub
\* the streams, numbered in the order of their creation
SubscriberIds == {1, 2}

\* the items a channel receives besides the published events
Connected == [type |-> ": connected"]
Ping == [type |-> ": ping"]

\* publish calls are not recorded
Unrecorded == [on |-> FALSE, events |-> <<>>]
\* publish calls are recorded, none made yet
Recording == [on |-> TRUE, events |-> <<>>]

\* what a handler hands to the hub for event e of kind ty
LivePayload(ty, e) == [type |-> ty, e |-> e]

Registered(subs) == {subs[i] : i \in DOMAIN subs}

\* position of subscriber s in the iteration over the registry
Position(subs, s) == CHOOSE i \in DOMAIN subs : subs[i] = s

\* faulty variant: the item is put in front of the items of the channel
SendFirst(items, payload) == <<payload>> \o items

\* send: controller.enqueue(encoder.encode(payload)) on a channel that accepts
\* writes, the item is queued behind the items written before
Send(items, payload) == Append(items, payload)

\* faulty variant: a rejected write ends the iteration and reaches the caller
PublishUnguarded(chan, subs, brk, payload) ==
    LET firstBroken == IF \E i \in DOMAIN subs : subs[i] \in brk
                       THEN CHOOSE i \in DOMAIN subs :
                                /\ subs[i] \in brk
                                /\ \A j \in DOMAIN subs : subs[j] \in brk => i <= j
                       ELSE Len(subs) + 1
    IN  [channel |-> [s \in DOMAIN chan |->
                         IF s \in Registered(subs) /\ Position(subs, s) < firstBroken
                         THEN Append(chan[s], payload)
                         ELSE chan[s]],
         threw |-> firstBroken <= Len(subs)]

\* publishLiveEvent: every registered subscriber is sent the payload in
\* insertion order, a write the channel rejects is caught and ignored
PublishLiveEvent(chan, subs, brk, payload) ==
    [channel |-> [s \in DOMAIN chan |->
                     IF s \in Registered(subs) /\ s \notin brk
                     THEN Send(chan[s], payload)
                     ELSE chan[s]],
     threw |-> FALSE]

\* faulty variant: a write rejected by a subscriber reaches the handler, whose
\* catch block answers 500
PublishEscalates(payload) ==
    LET sent == PublishLiveEvent(channel, subscribers, broken, payload)
    IN  /\ channel' = sent.channel
        /\ published' = IF published.on
                         THEN [published EXCEPT !.events = Append(@, payload)]
                         ELSE published
        /\ status' = IF Registered(subscribers) \cap broken # {} THEN 500 ELSE 200
        /\ UNCHANGED hub

\* the tail of every handler branch: publishLiveEvent(...) and then
\* return json({success: true}); an exception leaving publish would end in
\* the catch block's 500
PublishAndReturn(payload) ==
    LET sent == PublishLiveEvent(channel, subscribers, broken, payload)
    IN  /\ channel' = sent.channel
        /\ published' = IF published.on
                         THEN [published EXCEPT !.events = Append(@, payload)]
                         ELSE published
        /\ status' = IF sent.threw THEN 500 ELSE 200
        /\ UNCHANGED hub

\* a response that is not preceded by a publish: a rejection or the catch block
Respond(code) ==
    /\ status' = code
    /\ UNCHANGED live

\* the empty store, no handler running, no subscriber
EmptyStore ==
    /\ requests = [m \in MessageIds |-> NoRow]
    /\ sessions = [s \in SessionIds |-> NoRow]
    /\ dailySummary = [k \in DailyKeys |-> NoRow]
    /\ turns = <<>>
    /\ calls = [c \in Calls |-> Idle]
    /\ status = 0
    /\ delivered = 0
    /\ toolCalls = [c \in CallIds |-> NoRow]
    /\ fileEdits = <<>>
    /\ assistantTextParts = <<>>
    /\ log = <<>>
    /\ subscribers = <<>>
    /\ channel = [s \in SubscriberIds |-> <<>>]
    /\ broken = {}
    /\ timers = {}

Init == EmptyStore /\ run = Off /\ tieBreak = "asc" /\ published = Unrecorded

NoneInFlight == \A c \in DOMAIN calls : calls[c] = Idle

\* aggregate writes of the request handler for an event whose row read at the
\* start was existingRecord
SessionsAfter(sess, e, existingRecord) ==
    IF existingRecord = NoRow THEN SessionFirstReport(sess, e)
    ELSE IF DeltaGuard(Delta(e, existingRecord))
         THEN SessionDelta(sess, e, Delta(e, existingRecord))
         ELSE sess

DailyAfter(daily, e, existingRecord) ==
    IF existingRecord = NoRow THEN DailyFirstReport(daily, e)
    ELSE IF DeltaGuard(Delta(e, existingRecord))
         THEN DailyDelta(daily, e, Delta(e, existingRecord))
         ELSE daily

\* the store writes and the response of case 'request' when the open-turn
\* query returned openTurn
RequestWrites(e, openTurn) ==
    /\ requests' = UpsertRequest(requests, e)
    /\ sessions' = SessionsAfter(sessions, e, requests[e.messageId])
    /\ dailySummary' = DailyAfter(dailySummary, e, requests[e.messageId])
    /\ IF openTurn = 0
       THEN turns' = turns /\ PublishAndReturn(LivePayload("request", e))
       ELSE IF TurnUpdateViolates(turns, openTurn, e)
            THEN turns' = turns /\ Respond(500)
            ELSE /\ turns' = CloseTurn(turns, openTurn, e)
                 /\ PublishAndReturn(LivePayload("request", e))

\* POST, case 'request', processed without interleaving
PostRequest(e) ==
    /\ delivered < MaxEvents
    /\ NoneInFlight
    /\ \E openTurn \in OpenTurnChoices(turns, e.sessionId) : RequestWrites(e, openTurn)
    /\ run' = EndRun(StartRun(e), status')
    /\ delivered' = delivered + 1
    /\ UNCHANGED <<calls, tracker>>

\* POST of the legacy handler (no type field, no turns), without interleaving
LegacyPost(e) ==
    /\ delivered < MaxEvents
    /\ NoneInFlight
    /\ requests' = UpsertRequest(requests, e)
    /\ sessions' = SessionsAfter(sessions, e, requests[e.messageId])
    /\ dailySummary' = DailyAfter(dailySummary, e, requests[e.messageId])
    /\ Respond(200)
    /\ run' = EndRun(StartRun(e), 200)
    /\ delivered' = delivered + 1
    /\ UNCHANGED <<turns, calls, tracker>>

\* the store writes and the response of case 'prompt'
PromptWrites(e) ==
    /\ sessions' = SessionPrompt(sessions, e)
    /\ turns' = TurnPrompt(turns, e)
    /\ PublishAndReturn(LivePayload("prompt", e))
    /\ UNCHANGED <<requests, dailySummary>>

\* POST, case 'prompt'
PostPrompt(e) ==
    /\ delivered < MaxEvents
    /\ NoneInFlight
    /\ PromptWrites(e)
    /\ run' = (IF run = Off THEN Off ELSE NoRun)
    /\ delivered' = delivered + 1
    /\ UNCHANGED <<calls, tracker>>

Next ==
    \/ \E e \in RequestEvents : PostRequest(e)
    \/ \E e \in RequestEvents : LegacyPost(e)
    \/ \E e \in PromptEvents : PostPrompt(e)

Spec == Init /\ [][Next]_vars

\* ------------------------------------- the request handler, await by await
\* Every awaited store call of case 'request' is one step; between two steps
\* of one invocation the steps of other invocations may run.

\* faulty variant: the event is published whatever the response is
ReturnPublishes(c, code) ==
    /\ calls' = [calls EXCEPT ![c] = Idle]
    /\ channel' = PublishLiveEvent(channel, subscribers, broken,
                                    LivePayload("request", calls[c].e)).channel
    /\ published' = [published EXCEPT !.events =
                         Append(@, LivePayload("request", calls[c].e))]
    /\ status' = code
    /\ UNCHANGED hub
    /\ run' = EndRun(run, status')

\* the invocation returns: json({success: true}) after the publish, or the
\* catch block's 500
Return(c, code) ==
    /\ calls' = [calls EXCEPT ![c] = Idle]
    /\ IF code = 200
       THEN PublishAndReturn(LivePayload("request", calls[c].e))
       ELSE Respond(code)
    /\ run' = EndRun(run, status')

Goto(c, label) == calls' = [calls EXCEPT ![c].pc = label]

\* the handler is entered with event e
Start(c, e) ==
    /\ delivered < MaxEvents
    /\ calls[c] = Idle
    /\ calls' = [calls EXCEPT ![c] =
                    [pc |-> "select", e |-> e, existingRecord |-> NoRow, openTurn |-> 0]]
    /\ run' = StartRun(e)
    /\ delivered' = delivered + 1
    /\ UNCHANGED <<store, status, tracker, live>>

\* const existing = await db.select().from(requests).where(messageId)
SelectExisting(c) ==
    /\ calls[c].pc = "select"
    /\ calls' = [calls EXCEPT ![c].pc = "upsert",
                              ![c].existingRecord = requests[calls[c].e.messageId]]
    /\ UNCHANGED <<store, status, run, delivered, tracker, live>>

\* await db.insert(requests)...onConflictDoUpdate(...)
Upsert(c) ==
    /\ calls[c].pc = "upsert"
    /\ requests' = UpsertRequest(requests, calls[c].e)
    /\ Goto(c, IF calls[c].existingRecord = NoRow THEN "sessionUpsert"
               ELSE IF DeltaGuard(Delta(calls[c].e, calls[c].existingRecord))
                    THEN "dailyUpdate" ELSE "selectTurn")
    /\ UNCHANGED <<sessions, dailySummary, turns, status, run, delivered, tracker, live>>

\* first report: await db.insert(sessions)...onConflictDoUpdate(...)
SessionUpsert(c) ==
    /\ calls[c].pc = "sessionUpsert"
    /\ sessions' = SessionFirstReport(sessions, calls[c].e)
    /\ Goto(c, "dailyUpsert")
    /\ UNCHANGED <<requests, dailySummary, turns, status, run, delivered, tracker, live>>

\* first report: await db.insert(dailySummary)...onConflictDoUpdate(...)
DailyUpsert(c) ==
    /\ calls[c].pc = "dailyUpsert"
    /\ dailySummary' = DailyFirstReport(dailySummary, calls[c].e)
    /\ Goto(c, "selectTurn")
    /\ UNCHANGED <<requests, sessions, turns, status, run, delivered, tracker, live>>

\* re-send: await db.update(dailySummary)...
DailyUpdate(c) ==
    /\ calls[c].pc = "dailyUpdate"
    /\ dailySummary' = DailyDelta(dailySummary, calls[c].e,
                                  Delta(calls[c].e, calls[c].existingRecord))
    /\ Goto(c, "sessionUpdate")
    /\ UNCHANGED <<requests, sessions, turns, status, run, delivered, tracker, live>>

\* re-send: await db.update(sessions)...
SessionUpdate(c) ==
    /\ calls[c].pc = "sessionUpdate"
    /\ sessions' = SessionDelta(sessions, calls[c].e,
                                Delta(calls[c].e, calls[c].existingRecord))
    /\ Goto(c, "selectTurn")
    /\ UNCHANGED <<requests, dailySummary, turns, status, run, delivered, tracker, live>>

\* const openTurn = await db.select(...); without an open turn the handler
\* publishes and returns success
SelectTurn(c) ==
    /\ calls[c].pc = "selectTurn"
    /\ \E openTurn \in OpenTurnChoices(turns, calls[c].e.sessionId) :
          IF openTurn = 0
          THEN Return(c, 200)
          ELSE /\ calls' = [calls EXCEPT ![c].pc = "updateTurn", ![c].openTurn = openTurn]
               /\ UNCHANGED <<status, run, live>>
    /\ UNCHANGED <<store, delivered, tracker>>

\* await db.update(turns)...where(id); a unique violation is thrown and caught
UpdateTurn(c) ==
    /\ calls[c].pc = "updateTurn"
    /\ IF TurnUpdateViolates(turns, calls[c].openTurn, calls[c].e)
       THEN turns' = turns /\ Return(c, 500)
       ELSE turns' = CloseTurn(turns, calls[c].openTurn, calls[c].e) /\ Return(c, 200)
    /\ UNCHANGED <<requests, sessions, dailySummary, delivered, tracker>>

\* the awaited store call rejects (store unreachable, write fails): the catch
\* block answers 500 and nothing that was written before is undone
StoreFailure(c) ==
    /\ calls[c].pc \in {"select", "upsert", "sessionUpsert", "dailyUpsert",
                        "dailyUpdate", "sessionUpdate", "selectTurn", "updateTurn"}
    /\ Return(c, 500)
    /\ UNCHANGED <<store, delivered, tracker>>

\* events of the concurrent deliveries: one createdAt, and snapshots that
\* differ in input and output, so that every serial order keeps the totals exact
ConcEvents ==
    { e \in RequestEvents :
        /\ e.createdAt = 1
        /\ (e.tokens.input # 10 \/ (e.tokens.reasoning = 0 /\ e.tokens.cacheRead = 0)) }

ConcPrompts == { e \in PromptEvents : e.createdAt = 1 }

\* up to two invocations in flight, no store failure
NextConc ==
    \/ \E c \in Calls, e \in ConcEvents : Start(c, e)
    \/ \E c \in Calls : SelectExisting(c)
    \/ \E c \in Calls : Upsert(c)
    \/ \E c \in Calls : SessionUpsert(c)
    \/ \E c \in Calls : DailyUpsert(c)
    \/ \E c \in Calls : DailyUpdate(c)
    \/ \E c \in Calls : SessionUpdate(c)
    \/ \E c \in Calls : SelectTurn(c)
    \/ \E c \in Calls : UpdateTurn(c)
    \/ \E e \in ConcPrompts : PostPrompt(e)

SpecConc == Init /\ [][NextConc]_vars

\* events of the deliveries with store failures: the streaming series on one
\* day, redelivered at will
FailEvents == { e \in ConcEvents : e.messageId # "m3" }

\* the handler is entered when no other invocation is running
Deliver(e) == NoneInFlight /\ Start(1, e)

\* one invocation at a time, any awaited store call may fail
NextFail ==
    \/ \E e \in FailEvents : Deliver(e)
    \/ SelectExisting(1)
    \/ Upsert(1)
    \/ SessionUpsert(1)
    \/ DailyUpsert(1)
    \/ DailyUpdate(1)
    \/ SessionUpdate(1)
    \/ SelectTurn(1)
    \/ UpdateTurn(1)
    \/ StoreFailure(1)
    \/ \E e \in ConcPrompts : PostPrompt(e)

InitFail == EmptyStore /\ run = NoRun /\ tieBreak = "asc" /\ published = Unrecorded

SpecFail == InitFail /\ [][NextFail]_vars

\* events of the recorded series: two messages that share a DailySummary key
\* and live in different sessions, on two calendar days
SeriesEvents == { e \in RequestEvents : e.messageId # "m2" /\ e.createdAt # 3 }

NextSeries ==
    \/ \E e \in SeriesEvents : PostRequest(e)
    \/ \E e \in SeriesEvents : LegacyPost(e)
    \/ \E e \in ConcPrompts : PostPrompt(e)

\* serial deliveries with the history of the deliveries in a row recorded
SpecSeries == InitFail /\ [][NextSeries]_vars

\* the producer reports a message it has not reported before
StartNew(c, e) ==
    /\ requests[e.messageId] = NoRow
    /\ \A d \in Calls : calls[d] # Idle => calls[d].e.messageId # e.messageId
    /\ Start(c, e)

\* up to two invocations in flight, every messageId reported once
NextDistinct ==
    \/ \E c \in Calls, e \in ConcEvents : StartNew(c, e)
    \/ \E c \in Calls : SelectExisting(c)
    \/ \E c \in Calls : Upsert(c)
    \/ \E c \in Calls : SessionUpsert(c)
    \/ \E c \in Calls : DailyUpsert(c)
    \/ \E c \in Calls : SelectTurn(c)
    \/ \E c \in Calls : UpdateTurn(c)
    \/ \E e \in ConcPrompts : PostPrompt(e)

SpecDistinct == Init /\ [][NextDistinct]_vars

\* ------------------------------------------- the turn tracker, serially
\* number of events of one recorded behaviour of the turn tracker
MaxTurnEvents == MaxEvents + 1

\* the exchange of the end-to-end scenario reports 100 input and 40 output tokens
TurnRequests ==
    { [messageId |-> m, sessionId |-> SessionOf[m], providerId |-> "pX",
       modelId |-> ModelOf[m], tokens |-> Tok(100, 40, 0, 0, 0), cost |-> 2,
       createdAt |-> 1] : m \in {"m1", "m2"} }

TurnPrompts == { e \in PromptEvents : e.createdAt # 3 }

\* input.sessionID of the tool hooks: c1 is a call of S1, c2 a call of S2
CallSessionOf == [c \in CallIds |-> IF c = "c1" THEN "S1" ELSE "S2"]

ToolBeforeEvents ==
    { [sessionId |-> CallSessionOf[c], callId |-> c, tool |-> "edit", args |-> "a1",
       createdAt |-> 1] : c \in CallIds }
    \cup { [sessionId |-> "S1", callId |-> "c1", tool |-> "edit", args |-> "a2",
             createdAt |-> 2] }

ToolAfterEvents ==
    { [sessionId |-> CallSessionOf[c], callId |-> c, tool |-> "edit", output |-> "o1",
       success |-> "true", durationMs |-> 7, createdAt |-> 2] : c \in CallIds }

FileEditEvents ==
    { [sessionId |-> "S1", toolCallId |-> "c1", filePath |-> "f.ts",
       operation |-> "edit", createdAt |-> 2] }

\* the id of the turn of a user message, 0 when there is none
TurnOf(trns, u) ==
    IF \E i \in 1..Len(trns) : trns[i].userMessageId = u
    THEN CHOOSE i \in 1..Len(trns) : trns[i].userMessageId = u
    ELSE 0

CanProcess == Len(log) < MaxTurnEvents /\ NoneInFlight

\* the log records, for every processed event, its payload, the response
\* status, the open turns of its session before it was processed (open), the
\* turn it created or looked up (turn), whether its key was new (new) and,
\* for a prompt, whether its turn is now the most recently created open turn
\* of the session (latest)

\* what stays as it is when an event is processed serially and recorded
Recorded == UNCHANGED <<calls, run, delivered, tieBreak>>

ProcessPrompt(e) ==
    /\ CanProcess
    /\ PromptWrites(e)
    /\ log' = Append(log, [type |-> "prompt", e |-> e, status |-> status',
                            open |-> OpenTurnIds(turns, e.sessionId),
                            turn |-> TurnOf(turns', e.messageId),
                            new |-> (TurnOf(turns, e.messageId) = 0),
                            latest |-> (OpenTurnChoices(turns', e.sessionId)
                                           = {TurnOf(turns', e.messageId)})])
    /\ Recorded
    /\ UNCHANGED <<toolCalls, fileEdits, assistantTextParts>>

ProcessRequest(e) ==
    /\ CanProcess
    /\ \E openTurn \in OpenTurnChoices(turns, e.sessionId) :
          /\ RequestWrites(e, openTurn)
          /\ log' = Append(log, [type |-> "request", e |-> e, status |-> status',
                                  open |-> OpenTurnIds(turns, e.sessionId),
                                  turn |-> openTurn])
    /\ Recorded
    /\ UNCHANGED <<toolCalls, fileEdits, assistantTextParts>>

\* POST, case 'tool.before'
ProcessToolBefore(e) ==
    /\ CanProcess
    /\ PublishAndReturn(LivePayload("tool.before", e))
    /\ \E openTurn \in OpenTurnChoices(turns, e.sessionId) :
          /\ toolCalls' = ToolBeforeWrite(toolCalls, e, openTurn)
          /\ log' = Append(log, [type |-> "tool.before", e |-> e, status |-> status',
                                  open |-> OpenTurnIds(turns, e.sessionId),
                                  turn |-> openTurn,
                                  new |-> (toolCalls[e.callId] = NoRow)])
    /\ Recorded
    /\ UNCHANGED <<store, fileEdits, assistantTextParts>>

\* POST, case 'tool.after'
ProcessToolAfter(e) ==
    /\ CanProcess
    /\ PublishAndReturn(LivePayload("tool.after", e))
    /\ toolCalls' = ToolAfterWrite(toolCalls, e)
    /\ log' = Append(log, [type |-> "tool.after", e |-> e, status |-> status',
                            open |-> OpenTurnIds(turns, e.sessionId),
                            new |-> (toolCalls[e.callId] = NoRow)])
    /\ Recorded
    /\ UNCHANGED <<store, fileEdits, assistantTextParts>>

\* POST, case 'file.edit'
ProcessFileEdit(e) ==
    /\ CanProcess
    /\ PublishAndReturn(LivePayload("file.edit", e))
    /\ \E openTurn \in OpenTurnChoices(turns, e.sessionId) :
          /\ fileEdits' = FileEditWrite(fileEdits, toolCalls, e, openTurn)
          /\ log' = Append(log, [type |-> "file.edit", e |-> e, status |-> status',
                                  open |-> OpenTurnIds(turns, e.sessionId),
                                  turn |-> openTurn])
    /\ Recorded
    /\ UNCHANGED <<store, toolCalls, assistantTextParts>>

NextTurns ==
    \/ \E e \in TurnPrompts : ProcessPrompt(e)
    \/ \E e \in TurnRequests : ProcessRequest(e)
    \/ \E e \in ToolBeforeEvents : ProcessToolBefore(e)
    \/ \E e \in ToolAfterEvents : ProcessToolAfter(e)
    \/ \E e \in FileEditEvents : ProcessFileEdit(e)

SpecTurns == Init /\ [][NextTurns]_vars

\* ---------------------------------------- the text accumulator, serially
PartIds == {"p1", "p2", "p3"}

\* texts of the parts, as sequences of characters
Texts == { <<"a">>, <<"b">> }

\* two parts of message m1 with any text and creation time, a third part with
\* one text, and one part of m2
AssistantTextEvents ==
    { [sessionId |-> SessionOf[m], messageId |-> m, partId |-> q, text |-> t,
       createdAt |-> c] :
          m \in {"m1"}, q \in {"p1", "p2"}, t \in Texts, c \in {1, 2} }
    \cup { [sessionId |-> "S1", messageId |-> "m1", partId |-> "p3",
             text |-> <<"c">>, createdAt |-> c] : c \in {1, 2} }
    \cup { [sessionId |-> "S1", messageId |-> "m2", partId |-> "p1",
             text |-> <<"b">>, createdAt |-> 1] }

TextPrompts == { e \in PromptEvents : e.messageId = "u1" /\ e.createdAt = 1 }

TextRequests == { e \in TurnRequests : e.messageId = "m1" }

\* POST, case 'assistant.text'
ProcessAssistantText(e) ==
    /\ CanProcess
    /\ PublishAndReturn(LivePayload("assistant.text", e))
    /\ assistantTextParts' = TextInsert(assistantTextParts, e)
    /\ turns' = TextOnTurns(turns, e.messageId,
                            JoinLines(SelectParts(assistantTextParts', e.messageId, tieBreak)))
    /\ log' = Append(log, [type |-> "assistant.text", e |-> e, status |-> status',
                            open |-> OpenTurnIds(turns, e.sessionId),
                            new |-> (assistantTextParts' # assistantTextParts)])
    /\ Recorded
    /\ UNCHANGED <<requests, sessions, dailySummary, toolCalls, fileEdits>>

NextText ==
    \/ \E e \in TextPrompts : ProcessPrompt(e)
    \/ \E e \in TextRequests : ProcessRequest(e)
    \/ \E e \in AssistantTextEvents : ProcessAssistantText(e)

\* the store breaks ties of createdAt one way or the other
InitText ==
    EmptyStore /\ run = Off /\ tieBreak \in {"asc", "desc"} /\ published = Unrecorded

SpecText == InitText /\ [][NextText]_vars

\* ------------------------------------------- the head of the POST handler
Kinds == {"prompt", "tool.before", "tool.after", "file.edit", "assistant.text", "request"}

\* the fields each case of the switch tests before its first store call
RequiredFields(kind) ==
    CASE kind = "prompt" -> {"sessionId", "messageId", "prompt"}
      [] kind = "tool.before" -> {"sessionId", "callId", "tool"}
      [] kind = "tool.after" -> {"sessionId", "callId", "tool"}
      [] kind = "file.edit" -> {"sessionId", "filePath", "operation"}
      [] kind = "assistant.text" -> {"sessionId", "messageId", "partId", "text"}
      [] kind = "request" -> {"messageId", "sessionId", "providerId", "modelId"}

\* A request body: json says whether it parses, type is the value of the type
\* field ("none" when there is no such field), fields are the other fields
\* that are present with a truthy value, tokens is "absent", "null" or "object".
WellFormed(kind) ==
    [json |-> TRUE, type |-> kind, fields |-> RequiredFields(kind),
     tokens |-> IF kind = "request" THEN "object" ELSE "absent"]

Unparseable == [json |-> FALSE, type |-> "none", fields |-> {}, tokens |-> "absent"]

\* what the producer of the first version posts: a request without a type field
LegacyBody == [WellFormed("request") EXCEPT !.type = "none"]

\* bodies without a determinable kind, of an unknown kind, or with one
\* required field of their kind missing
MalformedBodies ==
    UNION { { [WellFormed(k) EXCEPT !.fields = @ \ {f}] : f \in RequiredFields(k) } :
                k \in Kinds }
    \cup { [LegacyBody EXCEPT !.fields = @ \ {f}] : f \in RequiredFields("request") }
    \cup { [WellFormed("prompt") EXCEPT !.type = "none"],
           [WellFormed("prompt") EXCEPT !.type = "bogus"],
           [LegacyBody EXCEPT !.tokens = "absent"],
           [LegacyBody EXCEPT !.tokens = "null"] }

\* a request event with a type field and without its tokens object
RequestWithoutTokens == [WellFormed("request") EXCEPT !.tokens = "absent"]

Bodies ==
    MalformedBodies
    \cup { WellFormed(k) : k \in Kinds }
    \cup { Unparseable, LegacyBody, RequestWithoutTokens }

\* the Authorization header: none, a bearer key that is not env.API_KEY, or
\* the configured key
HttpCalls ==
    { [auth |-> "ok", body |-> b] : b \in Bodies }
    \cup [auth : {"none", "wrong"}, body : {Unparseable, WellFormed("prompt"), LegacyBody}]

\* the kind the handler dispatches on: the type field, or 'request' for a
\* body without a type that has the keys tokens and messageId
KindOf(body) ==
    IF body.type # "none" THEN body.type
    ELSE IF body.tokens # "absent" /\ "messageId" \in body.fields
         THEN "request"
         ELSE "none"

\* faulty variant: the credential is compared after the body is read
OutcomeParsesFirst(call) ==
    IF ~call.body.json THEN 400
    ELSE IF call.auth = "none" THEN 401
    ELSE IF call.auth = "wrong" THEN 403
    ELSE IF KindOf(call.body) \notin Kinds THEN 400
    ELSE IF ~(RequiredFields(KindOf(call.body)) \subseteq call.body.fields) THEN 400
    ELSE IF KindOf(call.body) = "request" /\ call.body.tokens # "object" THEN 500
    ELSE 0

\* The response the handler gives before any store write, 0 when the event
\* reaches the store writes of its case. Reading event.tokens.input of a
\* request without a tokens object throws inside the try block: the catch
\* block answers 500.
Outcome(call) ==
    IF call.auth = "none" THEN 401
    ELSE IF call.auth = "wrong" THEN 403
    ELSE IF ~call.body.json THEN 400
    ELSE IF KindOf(call.body) \notin Kinds THEN 400
    ELSE IF ~(RequiredFields(KindOf(call.body)) \subseteq call.body.fields) THEN 400
    ELSE IF KindOf(call.body) = "request" /\ call.body.tokens # "object" THEN 500
    ELSE 0

\* the record of a call that was answered before any store write
Rejection(call, code) == [messageId |-> "rejected", call |-> call, results |-> <<code>>]

\* POST of a call that does not reach the store writes
Reject(call) ==
    /\ delivered < MaxEvents
    /\ NoneInFlight
    /\ Outcome(call) # 0
    /\ Respond(Outcome(call))
    /\ run' = (IF run = Off THEN Off ELSE Rejection(call, status'))
    /\ delivered' = delivered + 1
    /\ UNCHANGED <<store, calls, tracker>>

\* ------------------------------------------------- the live subscriptions
\* faulty variant: the subscriber is registered and no marker is sent
SubscribeSilently(s) ==
    /\ channel[s] = <<>>
    /\ s \notin Registered(subscribers)
    /\ timers' = timers \cup {s}
    /\ subscribers' = Append(subscribers, s)
    /\ UNCHANGED <<store, calls, status, run, delivered, tracker, channel, broken,
                   published>>

\* createLiveStream, start(controller): the marker is sent, the heartbeat
\* timer is set and the subscriber is registered; every id is one stream
Subscribe(s) ==
    /\ channel[s] = <<>>
    /\ \A t \in SubscriberIds : t < s => channel[t] # <<>>
    /\ s \notin Registered(subscribers)
    /\ channel' = [channel EXCEPT ![s] = Send(@, Connected)]
    /\ timers' = timers \cup {s}
    /\ subscribers' = Append(subscribers, s)
    /\ UNCHANGED <<store, calls, status, run, delivered, tracker, broken, published>>

\* faulty variant: the subscriber is removed and its timer keeps running
CancelKeepsTimer(s) ==
    /\ channel[s] # <<>>
    /\ s \notin broken
    /\ subscribers' = SelectSeq(subscribers, LAMBDA x : x # s)
    /\ UNCHANGED <<store, calls, status, run, delivered, tracker, channel, broken,
                   timers, published>>

\* cancel() of a created stream: nothing when the subscriber is already
\* gone, else the timer is cleared and the subscriber is removed. The stream
\* calls it when its consumer cancels a readable stream; a stream whose
\* controller rejects writes is no longer readable and never calls it.
Cancel(s) ==
    /\ channel[s] # <<>>
    /\ s \notin broken
    /\ IF s \in Registered(subscribers)
       THEN /\ timers' = timers \ {s}
            /\ subscribers' = SelectSeq(subscribers, LAMBDA x : x # s)
       ELSE UNCHANGED <<timers, subscribers>>
    /\ UNCHANGED <<store, calls, status, run, delivered, tracker, channel, broken,
                   published>>

\* the interval callback: a ping is sent, a rejected write is ignored; a
\* behaviour has the first tick of every timer
Heartbeat(s) ==
    /\ s \in timers
    /\ \A i \in DOMAIN channel[s] : channel[s][i] # Ping
    /\ channel' = IF s \in broken THEN channel
                  ELSE [channel EXCEPT ![s] = Send(@, Ping)]
    /\ UNCHANGED <<store, calls, status, run, delivered, tracker, hub, published>>

\* the controller of a registered subscriber stops accepting writes
\* (enqueue throws from now on) and cancel() has not been called
ChannelBreaks(s) ==
    /\ s \in Registered(subscribers)
    /\ s \notin broken
    /\ broken' = broken \cup {s}
    /\ UNCHANGED <<store, calls, status, run, delivered, tracker, subscribers, channel,
                   timers, published>>

\* ----------------------------------------- calls of any kind, served serially
CallPrompts == { e \in PromptEvents : e.messageId = "u1" /\ e.createdAt = 1 }

CallRequests == { e \in ConcEvents : e.messageId = "m1" /\ e.tokens.input \in {10, 30} }

\* a well-formed authorised call reaches the store writes of its case
Accepted(kind) == Outcome([auth |-> "ok", body |-> WellFormed(kind)]) = 0

NextCalls ==
    \/ \E call \in HttpCalls : Reject(call)
    \/ \E e \in CallPrompts : Accepted("prompt") /\ PostPrompt(e)
    \/ \E e \in CallRequests : Accepted("request") /\ PostRequest(e)
    \/ \E s \in SubscriberIds : Subscribe(s)

InitCalls == EmptyStore /\ run = NoRun /\ tieBreak = "asc" /\ published = Recording

SpecCalls == InitCalls /\ [][NextCalls]_vars

\* ------------------------------ ingestion with live subscribers and failures
\* Requests are served await by await, one at a time, and any awaited store
\* call may fail. A handler reads the hub only in its last step and the hub
\* steps do not touch the store, so a hub step between two awaits of a handler
\* has the effect of the same step before the handler was entered: the hub
\* steps are taken between the handlers.
NextLive ==
    \/ \E e \in CallRequests : Deliver(e)
    \/ SelectExisting(1)
    \/ Upsert(1)
    \/ SessionUpsert(1)
    \/ DailyUpsert(1)
    \/ DailyUpdate(1)
    \/ SessionUpdate(1)
    \/ SelectTurn(1)
    \/ UpdateTurn(1)
    \/ StoreFailure(1)
    \/ \E e \in CallPrompts : PostPrompt(e)
    \/ \E call \in {c \in HttpCalls : c.auth = "ok" /\ c.body = Unparseable} : Reject(call)
    \/ \E s \in SubscriberIds : NoneInFlight /\ Subscribe(s)
    \/ \E s \in SubscriberIds : NoneInFlight /\ Heartbeat(s)
    \/ \E s \in SubscriberIds : NoneInFlight /\ ChannelBreaks(s)

InitLive == EmptyStore /\ run = Off /\ tieBreak = "asc" /\ published = Recording

SpecLive == InitLive /\ [][NextLive]_vars

\* ------------------------------------------ the hub with published prompts
\* subscribers come, are cancelled or break while prompts are ingested and
\* published
NextHub ==
    \/ \E e \in ConcPrompts : PostPrompt(e)
    \/ \E s \in SubscriberIds : Subscribe(s)
    \/ \E s \in SubscriberIds : Cancel(s)
    \/ \E s \in SubscriberIds : Heartbeat(s)
    \/ \E s \in SubscriberIds : ChannelBreaks(s)

SpecHub == InitLive /\ [][NextHub]_vars

\* the timers keep firing and the runtime keeps serving: no step that can be
\* taken is postponed forever
SpecHubFair == SpecHub /\ WF_vars(NextHub)

\* ------------------------------------- events of all six kinds, serially
FrameTexts == { e \in AssistantTextEvents : e.partId = "p1" /\ e.createdAt = 1 }

NextKinds ==
    \/ NextTurns
    \/ \E e \in FrameTexts : ProcessAssistantText(e)

SpecKinds == Init /\ [][NextKinds]_vars

\* ------------------------------------ the assistant.text handler, await by await
\* the handler is entered with event e
StartText(c, e) ==
    /\ delivered < MaxTurnEvents
    /\ calls[c] = Idle
    /\ calls' = [calls EXCEPT ![c] = [pc |-> "textInsert", e |-> e, fullText |-> NoText]]
    /\ delivered' = delivered + 1
    /\ UNCHANGED <<store, status, run, tracker, live>>

\* await db.insert(assistantTextParts)...onConflictDoNothing()
InsertPart(c) ==
    /\ calls[c].pc = "textInsert"
    /\ assistantTextParts' = TextInsert(assistantTextParts, calls[c].e)
    /\ Goto(c, "textSelect")
    /\ UNCHANGED <<store, status, run, delivered, toolCalls, fileEdits, tieBreak, log, live>>

\* const parts = await db.select(...).orderBy(createdAt); fullText = join('\n')
SelectText(c) ==
    /\ calls[c].pc = "textSelect"
    /\ calls' = [calls EXCEPT
                   ![c].pc = "textUpdate",
                   ![c].fullText = JoinLines(SelectParts(assistantTextParts,
                                                         calls[c].e.messageId, tieBreak))]
    /\ UNCHANGED <<store, status, run, delivered, tracker, live>>

\* await db.update(turns).set({assistantText: fullText}), publish and return
UpdateText(c) ==
    /\ calls[c].pc = "textUpdate"
    /\ turns' = TextOnTurns(turns, calls[c].e.messageId, calls[c].fullText)
    /\ calls' = [calls EXCEPT ![c] = Idle]
    /\ PublishAndReturn(LivePayload("assistant.text", calls[c].e))
    /\ UNCHANGED <<requests, sessions, dailySummary, run, delivered, tracker>>

\* two parts of message m1 with different texts, created at the same or at
\* different instants
ConcTexts ==
    { e \in AssistantTextEvents :
        /\ e.messageId = "m1"
        /\ (e.partId = "p1" /\ e.text = <<"a">>) \/ (e.partId = "p2" /\ e.text = <<"b">>) }

\* the turn whose assistantMessageId is mid, 0 when there is none
TurnOfMessage(trns, mid) ==
    IF \E i \in 1..Len(trns) : trns[i].assistantMessageId = mid
    THEN CHOOSE i \in 1..Len(trns) : trns[i].assistantMessageId = mid
    ELSE 0

\* a prompt and the request of m1 are served one at a time; once m1 has
\* closed the turn, up to two assistant.text events of m1 are in flight
NextTextConc ==
    \/ \E e \in CallPrompts : PostPrompt(e)
    \/ \E e \in TextRequests : PostRequest(e)
    \/ \E c \in Calls, e \in ConcTexts :
          TurnOfMessage(turns, e.messageId) # 0 /\ StartText(c, e)
    \/ \E c \in Calls : InsertPart(c)
    \/ \E c \in Calls : SelectText(c)
    \/ \E c \in Calls : UpdateText(c)

SpecTextConc == InitText /\ [][NextTextConc]_vars

\* ------------------------------------------------------------ properties
Tracked(r) == r # Off /\ r # NoRun

DailyKeyOf(e) == <<dateStr(e.createdAt), e.providerId, e.modelId>>

TokenCols ==
    {"tokensInput", "tokensOutput", "tokensReasoning", "tokensCacheRead",
     "tokensCacheWrite", "costUsd"}

\* the value an event reports for a counter column
Reported(e, col) ==
    CASE col = "tokensInput" -> e.tokens.input
      [] col = "tokensOutput" -> e.tokens.output
      [] col = "tokensReasoning" -> e.tokens.reasoning
      [] col = "tokensCacheRead" -> e.tokens.cacheRead
      [] col = "tokensCacheWrite" -> e.tokens.cacheWrite
      [] col = "costUsd" -> e.cost

\* C1: for every tracked counter the sum over all DailySummary rows equals
\* the sum over the stored Request rows (stated as the claim states it; the
\* code violates it)
C1_DailySumsEqualRequestSums ==
    \A col \in TokenCols :
        SumOver(dailySummary, DailyKeys, col) = SumOver(requests, MessageIds, col)

\* C2: the sums over all Session rows of totalCostUsd, totalTokensInput and
\* totalTokensOutput equal the sums of cost, input and output tokens over the
\* stored Request rows
C2_SessionSumsEqualRequestSums ==
    /\ SumOver(sessions, SessionIds, "totalCostUsd") = SumOver(requests, MessageIds, "costUsd")
    /\ SumOver(sessions, SessionIds, "totalTokensInput")
          = SumOver(requests, MessageIds, "tokensInput")
    /\ SumOver(sessions, SessionIds, "totalTokensOutput")
          = SumOver(requests, MessageIds, "tokensOutput")

\* three request events were processed: a first report and a re-send of one
\* message of S1 and the first report of a second message of S1
C2_Witness ==
    /\ delivered = MaxEvents
    /\ turns = <<>>
    /\ requests["m1"] # NoRow /\ requests["m2"] # NoRow /\ requests["m3"] = NoRow
    /\ sessions["S1"] # NoRow
    /\ sessions["S1"].totalRequests = 2
    /\ sessions["S1"].totalTokensInput = 40
    /\ requests["m1"].tokensInput = 10
    /\ requests["m2"].tokensInput = 30

\* C3: a delivery whose payload equals the payload delivered just before it
\* leaves every Session and DailySummary row as it was, so N deliveries in a
\* row leave the rows of one delivery
C3_DuplicateLeavesAggregates ==
    [][ ( /\ Tracked(run) /\ Tracked(run')
          /\ run'.messageId = run.messageId
          /\ Len(run'.snaps) = Len(run.snaps) + 1
          /\ Last(run'.snaps) = Last(run.snaps) )
        => (sessions' = sessions /\ dailySummary' = dailySummary) ]_vars

\* the same payload was delivered three times in a row
C3_Witness ==
    /\ Tracked(run)
    /\ Len(run.snaps) = 3
    /\ run.snaps[1] = run.snaps[2] /\ run.snaps[2] = run.snaps[3]
    /\ sessions[run.snaps[1].sessionId].totalRequests = 1

\* the snapshots of the run, delivered from the first report on, never shrink
\* in input and output tokens
Growing(r) ==
    /\ Tracked(r) /\ r.first
    /\ \A i \in 1..(Len(r.snaps) - 1) :
          /\ r.snaps[i].tokens.input <= r.snaps[i + 1].tokens.input
          /\ r.snaps[i].tokens.output <= r.snaps[i + 1].tokens.output

StrictlyGrowing(r) ==
    /\ Growing(r)
    /\ \A i \in 1..(Len(r.snaps) - 1) :
          r.snaps[i].tokens.input < r.snaps[i + 1].tokens.input

SameDate(r) ==
    \A i \in 1..Len(r.snaps) : dateStr(r.snaps[i].createdAt) = dateStr(r.snaps[1].createdAt)

\* the Session row of the run's message holds its totals from before the run
\* plus the snapshot snap
SessionIncreasedBy(r, snap) ==
    LET sid == r.snaps[1].sessionId
    IN /\ sessions[sid] # NoRow
       /\ sessions[sid].totalTokensInput
             = Col(r.pre.sessions[sid], "totalTokensInput") + snap.tokens.input
       /\ sessions[sid].totalTokensOutput
             = Col(r.pre.sessions[sid], "totalTokensOutput") + snap.tokens.output
       /\ sessions[sid].totalCostUsd
             = Col(r.pre.sessions[sid], "totalCostUsd") + snap.cost

\* the DailySummary row of the run's key holds its counters from before the
\* run plus the snapshot snap
DailyIncreasedBy(r, snap) ==
    LET k == DailyKeyOf(r.snaps[1])
    IN /\ dailySummary[k] # NoRow
       /\ \A col \in TokenCols :
             dailySummary[k][col] = Col(r.pre.dailySummary[k], col) + Reported(snap, col)

AggregatesCountOnce ==
    /\ C1_DailySumsEqualRequestSums
    /\ C2_SessionSumsEqualRequestSums

\* C5: once concurrently processed request events have finished, the Session
\* and DailySummary totals contain exactly the measurements of the Request
\* rows, counted once (stated as the claim states it; the code violates it)
C5_ConcurrentCountedOnce == NoneInFlight => AggregatesCountOnce

\* C6: after a request event that ended in a store failure the Request,
\* Session and DailySummary rows are as they were before the event started
\* (stated as the claim states it; the code violates it)
C6_FailureLeavesStore ==
    ( /\ Tracked(run) /\ NoneInFlight
      /\ Len(run.snaps) = 1
      /\ run.results = <<500>> )
    => /\ requests = run.pre.requests
       /\ sessions = run.pre.sessions
       /\ dailySummary = run.pre.dailySummary

\* C7: a request event that failed and was then redelivered with success
\* leaves the Session and DailySummary rows of one successful delivery
\* (stated as the claim states it; the code violates it)
C7_RedeliveryAfterFailure ==
    ( /\ Tracked(run) /\ NoneInFlight
      /\ Len(run.snaps) = 2
      /\ run.snaps[1] = run.snaps[2]
      /\ run.results = <<500, 200>> )
    => LET e == run.snaps[1]
           was == run.pre.requests[e.messageId]
       IN /\ sessions = SessionsAfter(run.pre.sessions, e, was)
          /\ dailySummary = DailyAfter(run.pre.dailySummary, e, was)

C9_NoNegativeCounter ==
    /\ \A s \in SessionIds :
          sessions[s] # NoRow =>
             /\ sessions[s].totalCostUsd >= 0
             /\ sessions[s].totalTokensInput >= 0
             /\ sessions[s].totalTokensOutput >= 0
    /\ \A k \in DailyKeys :
          dailySummary[k] # NoRow =>
             \A col \in TokenCols : dailySummary[k][col] >= 0

\* C10: a re-send whose delta is not zero in some tracked field applies its
\* delta to the DailySummary row it addresses (stated as the claim states it;
\* the code violates it)
C10_SkipOnlyWhenAllZero ==
    [][ ( /\ Tracked(run')
          /\ delivered' = delivered + 1
          /\ requests[run'.messageId] # NoRow
          /\ dailySummary[DailyKeyOf(Last(run'.snaps))] # NoRow )
        => LET e == Last(run'.snaps)
               k == DailyKeyOf(e)
           IN \A col \in TokenCols :
                 dailySummary'[k][col]
                    = dailySummary[k][col] + Reported(e, col) - requests[e.messageId][col] ]_vars

\* C11: the upsert of a request event, also while another invocation is in
\* flight, leaves the one row of its messageId holding exactly the event's
\* five token counters and cost (replaced, not added) and touches the row of
\* no other messageId
C11_UpsertReplacesCounters ==
    [][ \A c \in Calls :
          (calls[c].pc = "upsert" /\ calls'[c].pc # "upsert")
          => LET e == calls[c].e
             IN /\ requests'[e.messageId] # NoRow
                /\ \A col \in TokenCols : requests'[e.messageId][col] = Reported(e, col)
                /\ \A m \in MessageIds \ {e.messageId} : requests'[m] = requests[m] ]_vars

\* two invocations for one messageId are in flight; the one that read the row
\* of the other's upsert has replaced its counters by its own, different ones
C11_Witness ==
    \E c, d \in Calls :
        /\ c # d
        /\ calls[c].pc = "dailyUpdate" /\ calls[d].pc = "sessionUpsert"
        /\ calls[c].e.messageId = calls[d].e.messageId
        /\ calls[c].e.tokens.input = 30 /\ calls[d].e.tokens.input = 50
        /\ requests[calls[c].e.messageId].tokensInput = 30

\* the messages whose session (daily) statement has been executed
SessionCounted ==
    { m \in MessageIds :
        /\ requests[m] # NoRow
        /\ \A c \in Calls : calls[c] # Idle /\ calls[c].e.messageId = m
                               => calls[c].pc \notin {"sessionUpsert"} }

DailyCounted ==
    { m \in MessageIds :
        /\ requests[m] # NoRow
        /\ \A c \in Calls : calls[c] # Idle /\ calls[c].e.messageId = m
                               => calls[c].pc \notin {"sessionUpsert", "dailyUpsert"} }

\* C12: request events with different messageIds that increment the same
\* Session or DailySummary row lose no increment in any interleaving: every
\* row counts each message whose statement has run exactly once, which is the
\* result of processing them one after the other in either order
C12_NoLostIncrement ==
    /\ \A s \in SessionIds :
          LET ms == { m \in SessionCounted : requests[m].sessionId = s }
          IN /\ Col(sessions[s], "totalRequests") = Cardinality(ms)
             /\ Col(sessions[s], "totalTokensInput") = SumOver(requests, ms, "tokensInput")
             /\ Col(sessions[s], "totalTokensOutput") = SumOver(requests, ms, "tokensOutput")
             /\ Col(sessions[s], "totalCostUsd") = SumOver(requests, ms, "costUsd")
    /\ \A k \in DailyKeys :
          LET ms == { m \in DailyCounted :
                        <<dateStr(1), requests[m].providerId, requests[m].modelId>> = k }
          IN /\ Col(dailySummary[k], "requestCount") = Cardinality(ms)
             /\ \A col \in TokenCols :
                   Col(dailySummary[k], col) = SumOver(requests, ms, col)

\* m1 and m2 (one Session row) were in flight together and both are counted
C12_Witness ==
    /\ calls[1] # Idle /\ calls[2] # Idle
    /\ calls[1].pc = "dailyUpsert" /\ calls[2].pc = "dailyUpsert"
    /\ calls[1].e.sessionId = calls[2].e.sessionId
    /\ sessions[calls[1].e.sessionId].totalRequests = 2
    /\ sessions[calls[1].e.sessionId].totalTokensInput
          = calls[1].e.tokens.input + calls[2].e.tokens.input

\* the event processed last and the only turn of its session that was open
\* when it was processed
LastEvent == Last(log)

OnlyOpenTurn(x) == CHOOSE t \in x.open : TRUE

\* a prompt with a new messageId has created an open turn for its session
PromptOpensTurn ==
    (log # <<>> /\ LastEvent.type = "prompt" /\ LastEvent.new)
    => /\ LastEvent.turn = Len(turns)
       /\ turns[LastEvent.turn].sessionId = LastEvent.e.sessionId
       /\ turns[LastEvent.turn].userMessageId = LastEvent.e.messageId
       /\ turns[LastEvent.turn].assistantMessageId = Null

\* a tool.before or file.edit processed while the turn of its session was
\* open is stored with that turn's id
ToolsAttachToOpenTurn ==
    /\ (log # <<>> /\ LastEvent.type = "tool.before" /\ Cardinality(LastEvent.open) = 1)
       => toolCalls[LastEvent.e.callId].turnId = OnlyOpenTurn(LastEvent)
    /\ (log # <<>> /\ LastEvent.type = "file.edit" /\ Cardinality(LastEvent.open) = 1)
       => Last(fileEdits).turnId = OnlyOpenTurn(LastEvent)

\* a request processed while the turn of its session was open has closed it
\* with its messageId and stamped its measurements on it
RequestClosesOpenTurn ==
    (log # <<>> /\ LastEvent.type = "request" /\ Cardinality(LastEvent.open) = 1)
    => LET t == turns[OnlyOpenTurn(LastEvent)]
       IN /\ t.assistantMessageId = LastEvent.e.messageId
          /\ \A col \in TokenCols : t[col] = Reported(LastEvent.e, col)

\* C13: a prompt creates an open Turn for its session; every tool.before and
\* file.edit of the session processed while that Turn is open is stored with
\* its id; the next request of the session sets the Turn's assistantMessageId
\* to its messageId and stamps its measurements (stated as the claim states
\* it; the code violates the last part)
C13_ExchangeAttachesToTurn ==
    /\ PromptOpensTurn
    /\ ToolsAttachToOpenTurn
    /\ RequestClosesOpenTurn

\* C14: a tool.after processed while the turn of its session is open is
\* stored with that turn's id, also when no tool.before of its callId was
\* processed before (stated as the claim states it; the code violates it)
C14_ToolAfterAttachesToOpenTurn ==
    (log # <<>> /\ LastEvent.type = "tool.after" /\ Cardinality(LastEvent.open) = 1)
    => toolCalls[LastEvent.e.callId].turnId = OnlyOpenTurn(LastEvent)

\* the j-th processed event is a request of session sid that closed the only
\* open turn of the session
ClosedOnlyTurn(j, sid) ==
    /\ log[j].type = "request" /\ log[j].e.sessionId = sid
    /\ log[j].status = 200
    /\ Cardinality(log[j].open) = 1

\* the k-th processed event is a prompt of session sid with a new messageId
NewPromptAt(k, sid) ==
    log[k].type = "prompt" /\ log[k].e.sessionId = sid /\ log[k].new

\* C15: a tool.before with a new callId, processed after a request closed the
\* turn of its session, is stored without a turn reference when no new prompt
\* of the session was processed in between, and with the id of the turn of
\* the new prompt when one was (and that turn has not been closed since)
C15_ToolBeforeAfterClosure ==
    (log # <<>> /\ LastEvent.type = "tool.before" /\ LastEvent.new)
    => LET i == Len(log)
           sid == LastEvent.e.sessionId
           stored == toolCalls[LastEvent.e.callId].turnId
       IN \A j \in 1..(i - 1) :
             ClosedOnlyTurn(j, sid) =>
                /\ (\A k \in (j + 1)..(i - 1) : ~NewPromptAt(k, sid)) => stored = 0
                /\ \A k \in (j + 1)..(i - 1) :
                      ( /\ NewPromptAt(k, sid)
                        /\ \A l \in ((j + 1)..(i - 1)) \ {k} : ~NewPromptAt(l, sid)
                        /\ \A l \in (k + 1)..(i - 1) :
                              ~(log[l].type = "request" /\ log[l].e.sessionId = sid) )
                      => stored = log[k].turn

\* prompt, request (closes the turn), a new prompt, then a tool.before with a
\* new callId: the call is stored with the id of the second turn
C15_Witness ==
    /\ Len(log) = 4
    /\ log[1].type = "prompt" /\ log[1].new
    /\ ClosedOnlyTurn(2, "S1") /\ log[2].turn = 1
    /\ NewPromptAt(3, "S1")
    /\ log[4].type = "tool.before" /\ log[4].new /\ log[4].e.sessionId = "S1"
    /\ turns[1].assistantMessageId # Null
    /\ toolCalls[log[4].e.callId].turnId = 2

\* C16: every session has at most one turn whose assistantMessageId is null
\* (stated as the claim states it; a second prompt violates it)
C16_AtMostOneOpenTurn ==
    \A sid \in SessionIds : Cardinality(OpenTurnIds(turns, sid)) <= 1

\* the step inserts a turn for a session that has an open turn: the producer
\* has started a second prompt before the first one was answered
SecondPromptStep ==
    /\ Len(turns') = Len(turns) + 1
    /\ OpenTurnIds(turns, turns'[Len(turns')].sessionId) # {}

\* C16, amended: a session gets a second open turn only by a prompt with a
\* new messageId that is processed while a turn of the session is open, and
\* by nothing else; as long as the producer sends no such prompt every session
\* has at most one open turn
C16_OnlySecondPromptAddsOpenTurn ==
    [][ (C16_AtMostOneOpenTurn /\ ~SecondPromptStep) => C16_AtMostOneOpenTurn' ]_vars

\* prompt, request, prompt: the first turn is closed, the second one is the
\* one open turn of the session
C16_Witness ==
    /\ Len(log) = 3
    /\ NewPromptAt(1, "S1") /\ ClosedOnlyTurn(2, "S1") /\ NewPromptAt(3, "S1")
    /\ log[3].open = {}
    /\ OpenTurnIds(turns, "S1") = {2}

\* the k-th processed event is a second prompt: a prompt with a new messageId
\* processed while one older turn of its session was open, and the turn it
\* created is the more recently created one of the two
SecondPromptAt(k, sid) ==
    /\ NewPromptAt(k, sid)
    /\ Cardinality(log[k].open) = 1
    /\ log[k].latest

\* the older turn that a second prompt left open is still open (no prompt was
\* delivered twice)
OrphanStaysOpen ==
    \A k \in 1..Len(log) : \A sid \in SessionIds :
        ( /\ SecondPromptAt(k, sid)
          /\ \A n \in 1..Len(log) : log[n].type = "prompt" => log[n].new )
        => turns[OnlyOpenTurn(log[k])].assistantMessageId = Null

\* the tool.before, file.edit and request events of the session processed
\* after a second prompt, up to the request that answers it, attach to the
\* turn of the second prompt
LaterEventsAttachToSecondTurn ==
    \A k \in 1..Len(log) : \A sid \in SessionIds :
        SecondPromptAt(k, sid) =>
           \A l \in (k + 1)..Len(log) :
              ( /\ log[l].type \in {"tool.before", "file.edit", "request"}
                /\ log[l].e.sessionId = sid
                /\ \A n \in (k + 1)..(l - 1) :
                      ~(log[n].e.sessionId = sid /\ log[n].type \in {"prompt", "request"}) )
              => log[l].turn = log[k].turn

\* C17: after a second prompt was processed while a turn of the session was
\* open, the older turn is never closed by a later event, and the turn of the
\* second prompt is the one that later tool, file and request events of the
\* session attach to (stated as the claim states it; the code violates the
\* first part)
C17_OrphanNeverClosed ==
    /\ OrphanStaysOpen
    /\ LaterEventsAttachToSecondTurn

\* the processed events are exactly prompt(S1, u1), tool.before(S1, c1),
\* tool.after(S1, c1), request(S1, m1, input 100, output 40), in this order
\* from the empty store
Scenario ==
    /\ Len(log) = 4
    /\ log[1].type = "prompt"
    /\ log[1].e.sessionId = "S1" /\ log[1].e.messageId = "u1"
    /\ log[2].type = "tool.before"
    /\ log[2].e.sessionId = "S1" /\ log[2].e.callId = "c1"
    /\ log[3].type = "tool.after"
    /\ log[3].e.sessionId = "S1" /\ log[3].e.callId = "c1"
    /\ log[4].type = "request"
    /\ log[4].e.sessionId = "S1" /\ log[4].e.messageId = "m1"
    /\ log[4].e.tokens.input = 100 /\ log[4].e.tokens.output = 40

\* C19: the scenario yields exactly one Turn (user u1, assistant m1) with the
\* tool call c1 attributed to it, exactly one Session row with totalRequests 1
\* and totalTokensInput 100, and exactly one DailySummary row, the one of the
\* request's (date, provider, model), with requestCount 1
C19_EndToEndScenario ==
    Scenario =>
       /\ Len(turns) = 1
       /\ turns[1].userMessageId = "u1" /\ turns[1].assistantMessageId = "m1"
       /\ { c \in CallIds : toolCalls[c] # NoRow } = {"c1"}
       /\ toolCalls["c1"].turnId = 1
       /\ { sid \in SessionIds : sessions[sid] # NoRow } = {"S1"}
       /\ sessions["S1"].totalRequests = 1
       /\ sessions["S1"].totalTokensInput = 100
       /\ { k \in DailyKeys : dailySummary[k] # NoRow } = {DailyKeyOf(log[4].e)}
       /\ dailySummary[DailyKeyOf(log[4].e)].requestCount = 1

\* the scenario was processed: every event was answered with success and the
\* tool call holds its start and its completion
C19_Witness ==
    /\ Scenario
    /\ \A i \in 1..4 : log[i].status = 200
    /\ toolCalls["c1"].args = "a1" /\ toolCalls["c1"].output = "o1"
    /\ turns[1].tokensInput = 100 /\ turns[1].tokensOutput = 40

\* C18: the open turn of a session is closed once a request of the session
\* was processed with success, and also once an assistant.text event of the
\* session was processed (stated as the claim states it; the code violates
\* the second part)
C18_TextCompletionClosesTurn ==
    ( /\ log # <<>>
      /\ LastEvent.type \in {"request", "assistant.text"}
      /\ LastEvent.status = 200
      /\ Cardinality(LastEvent.open) = 1 )
    => turns[OnlyOpenTurn(LastEvent)].assistantMessageId # Null

\* the rows of the parts of message mid
PartRows(parts, mid) == { i \in 1..Len(parts) : parts[i].messageId = mid }

RECURSIVE TextLength(_, _)
\* the summed length of the texts of the rows ids
TextLength(parts, ids) ==
    IF ids = {} THEN 0
    ELSE LET i == CHOOSE x \in ids : TRUE
         IN Len(parts[i].text) + TextLength(parts, ids \ {i})

\* C20: an assistant.text event whose (messageId, partId) is stored adds no
\* row and leaves the reconstructed text as it was; the text on the Turn of
\* the message holds every stored part once, however often it was delivered
C20_DuplicatePartIgnored ==
    [][ ( /\ Len(log') = Len(log) + 1
          /\ Last(log').type = "assistant.text"
          /\ \E i \in 1..Len(assistantTextParts) :
                /\ assistantTextParts[i].messageId = Last(log').e.messageId
                /\ assistantTextParts[i].partId = Last(log').e.partId )
        => LET mid == Last(log').e.messageId
               before == JoinLines(SelectParts(assistantTextParts, mid, tieBreak))
               after == JoinLines(SelectParts(assistantTextParts', mid, tieBreak'))
               rows == PartRows(assistantTextParts', mid)
           IN /\ assistantTextParts' = assistantTextParts
              /\ after = before
              /\ Len(after) = TextLength(assistantTextParts', rows) + Cardinality(rows) - 1
              /\ \A i \in 1..Len(turns') :
                    turns'[i].assistantMessageId = mid
                    => /\ turns'[i].assistantText = before
                       /\ turns[i].assistantText \in {NoText, before} ]_vars

\* prompt u1 and request m1 closed a turn, part p1 of m1 was delivered twice,
\* the second time with another text: one row, the first text on the turn
C20_Witness ==
    /\ Len(log) = 4
    /\ log[1].type = "prompt" /\ log[2].type = "request"
    /\ log[3].type = "assistant.text" /\ log[3].new
    /\ log[4].type = "assistant.text" /\ ~log[4].new
    /\ log[3].e.partId = log[4].e.partId /\ log[3].e.text # log[4].e.text
    /\ Len(assistantTextParts) = 1
    /\ turns[1].assistantMessageId = "m1"
    /\ turns[1].assistantText = log[3].e.text

\* the arrangements of the rows ids in a sequence
Arrangements(ids) ==
    { f \in [1..Cardinality(ids) -> ids] :
        \A i, j \in 1..Cardinality(ids) : i # j => f[i] # f[j] }

\* the texts that hold every stored part of message mid once, in the order of
\* the creation times
InCreationOrder(parts, mid) ==
    { JoinLines([k \in 1..Len(ord) |-> parts[ord[k]].text]) :
        ord \in { f \in Arrangements(PartRows(parts, mid)) :
                     \A k \in 1..(Len(f) - 1) :
                        parts[f[k]].createdAt <= parts[f[k + 1]].createdAt } }

\* C21: the text written onto the Turn of a message is the concatenation of
\* the texts of all stored parts of the message in the order of their
\* creation times, whatever the order in which the parts arrived
C21_TextInCreationOrder ==
    \A i \in 1..Len(turns) :
        (turns[i].assistantMessageId # Null /\ turns[i].assistantText # NoText)
        => turns[i].assistantText
              \in InCreationOrder(assistantTextParts, turns[i].assistantMessageId)

\* after the request, the part created second arrived first: the text
\* on the Turn starts with the part created first
C21_Witness ==
    /\ Len(log) = 4
    /\ log[2].type = "request" /\ log[2].turn = 1
    /\ log[3].type = "assistant.text" /\ log[4].type = "assistant.text"
    /\ log[3].new /\ log[4].new
    /\ log[3].e.messageId = "m1" /\ log[4].e.messageId = "m1"
    /\ log[3].e.createdAt = 2 /\ log[4].e.createdAt = 1
    /\ log[3].e.text = <<"b">> /\ log[4].e.text = <<"a">>
    /\ turns[1].assistantText = <<"a", "\n", "b">>

\* C22: whatever the serial order in which the parts of a message and the
\* request that carries its messageId arrived, once they are processed the
\* Turn closed by the request holds the text of all stored parts (stated as
\* the claim states it; the code violates it)
C22_TextCompleteInAnyOrder ==
    \A i \in 1..Len(turns) :
        ( /\ turns[i].assistantMessageId # Null
          /\ PartRows(assistantTextParts, turns[i].assistantMessageId) # {} )
        => turns[i].assistantText
              \in InCreationOrder(assistantTextParts, turns[i].assistantMessageId)

\* the positions in the log of the events of type ty for callId c
CallEventsAt(ty, c) ==
    { i \in 1..Len(log) : log[i].type = ty /\ log[i].e.callId = c }

\* the greatest element of a non-empty set of numbers
Latest(S) == CHOOSE i \in S : \A j \in S : j <= i

\* C23: a callId has one ToolCall row, and once a tool.before and a
\* tool.after of the callId were processed, in either order, the row holds
\* the tool, args and start time of the tool.before processed last and the
\* output, success, duration and completion time of the tool.after processed
\* last
C23_ToolCallMerged ==
    \A c \in CallIds :
        (CallEventsAt("tool.before", c) # {} /\ CallEventsAt("tool.after", c) # {})
        => LET b == log[Latest(CallEventsAt("tool.before", c))].e
               a == log[Latest(CallEventsAt("tool.after", c))].e
           IN /\ toolCalls[c] # NoRow
              /\ toolCalls[c].tool = b.tool
              /\ toolCalls[c].args = b.args
              /\ toolCalls[c].startedAt = b.createdAt
              /\ toolCalls[c].output = a.output
              /\ toolCalls[c].success = a.success
              /\ toolCalls[c].durationMs = a.durationMs
              /\ toolCalls[c].completedAt = a.createdAt

\* the tool.after of c1 arrived first, its tool.before second
C23_Witness ==
    /\ Len(log) = 2
    /\ log[1].type = "tool.after" /\ log[1].e.callId = "c1" /\ log[1].new
    /\ log[2].type = "tool.before" /\ log[2].e.callId = "c1" /\ ~log[2].new
    /\ toolCalls["c1"].startedAt = log[2].e.createdAt
    /\ toolCalls["c1"].completedAt = log[1].e.createdAt
    /\ toolCalls["c1"].args = log[2].e.args
    /\ toolCalls["c1"].output = "o1"

\* C24: after an event of any kind was processed with success a Session row
\* exists for the session id it names (stated as the claim states it; the
\* code violates it)
C24_SessionRowExists ==
    \A i \in 1..Len(log) :
        log[i].status = 200 => sessions[log[i].e.sessionId] # NoRow

\* a step that serves call without reaching the store writes of a case
Served(call) == delivered' = delivered + 1 /\ run' = Rejection(call, status')

\* the rows of every table and the items of every subscriber channel
Observable ==
    <<requests, sessions, dailySummary, turns, toolCalls, fileEdits, assistantTextParts,
      channel>>

\* C25: an authorised call whose body has no determinable kind (no type and
\* no tokens object), an unknown type, or lacks a required field of its kind
\* is answered with a client error (4xx), and serving it changes no store row
\* and no subscriber channel.
C25_MalformedRejected ==
    [][\A call \in HttpCalls :
          (call.auth = "ok" /\ call.body \in MalformedBodies /\ Served(call))
             => (status' \in 400..499 /\ UNCHANGED Observable)]_vars

\* C26: a call without a bearer credential or with a key different from the
\* configured one is answered 401 or 403 whatever its body is, also when the
\* body does not parse, and serving it changes no store row and no
\* subscriber channel.
C26_UnauthorizedRejectedFirst ==
    [][\A call \in HttpCalls :
          (call.auth # "ok" /\ Served(call))
             => (status' \in {401, 403} /\ UNCHANGED Observable)]_vars

\* an unparseable body without a credential was answered 401 while a
\* subscriber was listening and the store had rows
C26_Witness ==
    /\ run = Rejection([auth |-> "none", body |-> Unparseable], 401)
    /\ status = 401
    /\ subscribers # <<>>
    /\ turns # <<>>

\* a handler invocation ends in this step: a request served await by await
\* returns, or a call served in one step is answered
HandlerEnds(c) ==
    \/ calls[c] # Idle /\ calls'[c] = Idle
    \/ delivered' = delivered + 1 /\ calls' = calls

\* the store holds the row the handler of the published event writes first
WritesInPlace(p) ==
    IF p.type = "request"
    THEN /\ requests'[p.e.messageId] # NoRow
         /\ requests'[p.e.messageId].tokensInput = p.e.tokens.input
         /\ requests'[p.e.messageId].tokensOutput = p.e.tokens.output
    ELSE /\ TurnOf(turns', p.e.messageId) # 0
         /\ sessions'[p.e.sessionId] # NoRow

\* C27: the hub gets an event exactly when the handler of the event ends with
\* the success response: a handler that ends with success has published once,
\* its own event, with its store writes in place, and a handler that ends
\* with a rejection or with the 500 of a store failure has published nothing;
\* no other step publishes.
C27_PublishedIffIngested ==
    [][/\ \A c \in Calls :
            HandlerEnds(c) =>
               IF status' = 200
               THEN /\ Len(published'.events) = Len(published.events) + 1
                    /\ SubSeq(published'.events, 1, Len(published.events))
                          = published.events
                    /\ calls[c] # Idle
                          => Last(published'.events) = LivePayload("request", calls[c].e)
                    /\ WritesInPlace(Last(published'.events))
               ELSE published' = published
       /\ published' # published => (status' = 200 /\ \E c \in Calls : HandlerEnds(c))
      ]_vars

\* a request was ingested and published to a subscriber, and a later request
\* hit a store failure after its upsert and was not published
C27_Witness ==
    /\ NoneInFlight
    /\ status = 500
    /\ Len(published.events) = 1
    /\ published.events[1].type = "request"
    /\ requests[published.events[1].e.messageId].tokensInput
          # published.events[1].e.tokens.input
    /\ \E s \in SubscriberIds : channel[s] = <<Connected, published.events[1]>>

\* the items of a channel
Items(s) == {channel[s][i] : i \in DOMAIN channel[s]}

\* C28: when a handler whose store writes succeeded publishes while the
\* channel of some registered subscribers rejects writes, the handler still
\* answers success and its store writes are in place.
C28_DeliveryFailureKeepsOutcome ==
    [][\A c \in Calls :
          (/\ HandlerEnds(c)
           /\ Len(published'.events) = Len(published.events) + 1
           /\ Registered(subscribers) \cap broken # {})
             => (status' = 200 /\ WritesInPlace(Last(published'.events)))]_vars

\* the first of two subscribers rejected the write of the only published
\* event, the second received it, and the handler answered success
C28_Witness ==
    /\ NoneInFlight
    /\ status = 200
    /\ subscribers = <<1, 2>>
    /\ 1 \in broken
    /\ Len(published.events) = 1
    /\ channel[1] = <<Connected>>
    /\ channel[2] = <<Connected, published.events[1]>>

\* C29: a publish appends the event to the channel of every subscriber that
\* is registered at the call and accepts writes, whatever its place in the
\* iteration, and to no other channel.
C29_PublishReachesAccepting ==
    [][Len(published'.events) = Len(published.events) + 1
          => \A s \in SubscriberIds :
                channel'[s] = IF s \in Registered(subscribers) /\ s \notin broken
                              THEN Append(channel[s], Last(published'.events))
                              ELSE channel[s]]_vars

\* the subscriber that comes first in the iteration received the first event
\* and rejected the second, which the subscriber after it received
C29_Witness ==
    /\ subscribers = <<1, 2>>
    /\ broken = {1}
    /\ Len(published.events) = 2
    /\ channel[1] = <<Connected, published.events[1]>>
    /\ channel[2] = <<Connected, published.events[1], published.events[2]>>

\* C30: the channel of every subscriber starts with the connectivity marker,
\* which is there from the registration on and is written once: every event
\* and every ping of the channel comes after it.
C30_MarkerFirst ==
    \A s \in SubscriberIds :
       /\ s \in Registered(subscribers) => channel[s] # <<>>
       /\ channel[s] # <<>> =>
             /\ channel[s][1] = Connected
             /\ \A i \in 2..Len(channel[s]) : channel[s][i] # Connected

\* a channel that received the marker, then a ping and an event
C30_Witness ==
    \E s \in SubscriberIds :
       /\ Len(channel[s]) >= 3
       /\ Ping \in Items(s)
       /\ \E p \in Items(s) : p.type \in Kinds

\* the published events among the items of a channel, in the order received
Events(items) == SelectSeq(items, LAMBDA x : x.type \in Kinds)

\* the events published by this step
NewlyPublished ==
    SubSeq(published'.events, Len(published.events) + 1, Len(published'.events))

\* C31: a subscriber that is registered with a channel that accepts writes
\* before and after a step has received exactly the events published by the
\* step, behind the events it had and in publication order; a stream that
\* is created by a step has received no event, whatever was published before.
C31_EventsAfterSubscription ==
    [][\A s \in SubscriberIds :
          /\ channel[s] = <<>> => Events(channel'[s]) = <<>>
          /\ (/\ s \in Registered(subscribers) /\ s \notin broken
              /\ s \in Registered(subscribers') /\ s \notin broken')
                => Events(channel'[s]) = Events(channel[s]) \o NewlyPublished]_vars

\* the first subscriber received two different events in publication order,
\* the second, which subscribed between them, only the later one
C31_Witness ==
    /\ subscribers = <<1, 2>>
    /\ broken = {}
    /\ Len(published.events) = 2
    /\ published.events[1] # published.events[2]
    /\ Events(channel[1]) = published.events
    /\ Events(channel[2]) = <<published.events[2]>>

\* C32: the running heartbeat timers are exactly those of the registered
\* subscribers before and after every step, so a cancel removes the
\* subscriber and clears its timer in one step; a stream whose subscriber was
\* removed stays without subscriber and timer whatever is called afterwards,
\* a second cancel included.
C32_CancelReleasesTimer ==
    [][/\ timers = Registered(subscribers)
       /\ timers' = Registered(subscribers')
       /\ \A s \in SubscriberIds :
             (channel[s] # <<>> /\ s \notin Registered(subscribers))
                => (s \notin Registered(subscribers') /\ s \notin timers'
                    /\ channel'[s] = channel[s])]_vars

\* the first stream was cancelled after it received an event; the second is
\* registered with its timer and received a later event
C32_Witness ==
    /\ subscribers = <<2>>
    /\ timers = {2}
    /\ Len(published.events) = 2
    /\ Events(channel[1]) = <<published.events[1]>>
    /\ Events(channel[2]) = <<published.events[2]>>

\* C33: a subscriber whose channel rejects writes and whose cancel is not
\* called is eventually removed from the subscriber set with its timer
\* cleared.
C33_DeadSubscriberRemoved ==
    \A s \in SubscriberIds :
       (s \in broken) ~> (s \notin Registered(subscribers) /\ s \notin timers)

\* this step serves a request event (a prompt event) without interleaving
RequestStep == delivered' = delivered + 1 /\ Tracked(run')
PromptStep == delivered' = delivered + 1 /\ run' = NoRun

\* 1 for the row that counts a first report, else 0
CountsOne(first, hit) == IF first /\ hit THEN 1 ELSE 0

GuardCols == {"tokensInput", "tokensOutput", "costUsd"}

\* the Session column that totals a Request column
TotalOf(col) ==
    CASE col = "tokensInput" -> "totalTokensInput"
      [] col = "tokensOutput" -> "totalTokensOutput"
      [] col = "costUsd" -> "totalCostUsd"

\* C35: a re-send of a messageId adds its delta of input, output and cost to
\* the DailySummary row and the Session row that counted the first report of
\* the messageId, also when the re-send is created on another day.
C35_DeltaReachesFirstRow ==
    [][(RequestStep /\ run'.first /\ Len(run'.snaps) >= 2)
          => LET e == Last(run'.snaps)
                 k == DailyKeyOf(run'.snaps[1])
                 sid == run'.snaps[1].sessionId
             IN \A col \in GuardCols :
                   /\ Col(dailySummary'[k], col)
                         = Col(dailySummary[k], col)
                              + Reported(e, col) - requests[e.messageId][col]
                   /\ Col(sessions'[sid], TotalOf(col))
                         = Col(sessions[sid], TotalOf(col))
                              + Reported(e, col) - requests[e.messageId][col]]_vars

\* C36: every well-formed request event processed serially against an
\* available store is acknowledged with success, also the re-send of a
\* messageId that has closed a turn while a newer turn of the session is open.
C36_RequestNeverFails ==
    \A i \in 1..Len(log) : log[i].type = "request" => log[i].status = 200

\* C37: every closed turn carries the five token counters and the cost of
\* the stored Request row of its assistantMessageId.
C37_TurnMatchesRequest ==
    \A i \in 1..Len(turns) :
       turns[i].assistantMessageId # Null
          => /\ requests[turns[i].assistantMessageId] # NoRow
             /\ \A col \in TokenCols :
                   turns[i][col] = requests[turns[i].assistantMessageId][col]

\* C38: no two turn rows have the same userMessageId, and a turn that is
\* closed keeps its row, its userMessageId and its assistantMessageId under
\* every event, the redelivery of its prompt included.
C38_ClosedTurnStaysClosed ==
    [][/\ \A i, j \in 1..Len(turns') :
             turns'[i].userMessageId = turns'[j].userMessageId => i = j
       /\ Len(turns') >= Len(turns)
       /\ \A i \in 1..Len(turns) :
             /\ turns'[i].userMessageId = turns[i].userMessageId
             /\ turns[i].assistantMessageId # Null
                   => turns'[i].assistantMessageId = turns[i].assistantMessageId]_vars

\* the prompt of a turn was redelivered after a request had closed the turn,
\* and the turn is closed
C38_Witness ==
    \E j, k \in 1..Len(log) :
       /\ j < k
       /\ log[j].type = "request" /\ log[j].status = 200 /\ log[j].turn # 0
       /\ log[k].type = "prompt" /\ ~log[k].new /\ log[k].turn = log[j].turn
       /\ turns[log[k].turn].assistantMessageId = log[j].e.messageId

\* the numeric totals of a session row
Totals(row) ==
    <<Col(row, "totalRequests"), Col(row, "totalCostUsd"),
      Col(row, "totalTokensInput"), Col(row, "totalTokensOutput")>>

\* C39: processing a prompt, tool.before, tool.after, file.edit or
\* assistant.text event leaves every Request row, every DailySummary row and
\* the four numeric totals of every existing Session row as they were.
C39_OtherKindsLeaveAggregates ==
    [][(Len(log') = Len(log) + 1 /\ Last(log').type # "request")
          => /\ requests' = requests
             /\ dailySummary' = dailySummary
             /\ \A s \in SessionIds :
                   sessions[s] # NoRow => Totals(sessions'[s]) = Totals(sessions[s])]_vars

\* after a request was counted in S1, a prompt of S1 and two events of other
\* kinds, an assistant.text among them, were processed
C39_Witness ==
    /\ Len(log) = MaxTurnEvents
    /\ log[1].type = "request" /\ log[1].e.sessionId = "S1"
    /\ sessions["S1"].totalRequests = 1
    /\ \E i \in 2..Len(log) : log[i].type = "prompt"
    /\ \E i \in 2..Len(log) : log[i].type = "assistant.text"
    /\ \E i \in 2..Len(log) : log[i].type \in {"tool.before", "tool.after", "file.edit"}

\* text t occurs in the text full
Contains(full, t) ==
    \E k \in 0..(Len(full) - Len(t)) : SubSeq(full, k + 1, k + Len(t)) = t

\* C40: once no assistant.text handler is running, the text cached on the
\* turn of a message contains the text of every stored part of the message,
\* whatever the interleaving of the handlers' steps was.
C40_ConcurrentPartsBothCached ==
    NoneInFlight =>
       \A i \in 1..Len(assistantTextParts) :
          LET part == assistantTextParts[i]
              t == TurnOfMessage(turns, part.messageId)
          IN t # 0 => Contains(turns[t].assistantText, part.text)

====
